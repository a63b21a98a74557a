--------------------------- MODULE ArtifactStore ---------------------------
(***************************************************************************)
(* The Agent's capsule store and installed-artifact registry               *)
(* (kx_agent/capsules/importer.py, kx_agent/artifacts/registry.py).        *)
(*                                                                         *)
(* Importing a capsule and removing an artifact write three stores one     *)
(* after another: the capsule file, the extraction directory and the       *)
(* registry file.  Each file replacement is atomic, the sequence is not:   *)
(* it can be refused, fail or be cut off by a crash after any step.  The   *)
(* Agent serves one request at a time (coroutines that never await), so    *)
(* at most one sequence is in progress.                                    *)
(*                                                                         *)
(* A capsule's content is a release.  What its descriptor and its          *)
(* verification say is given by constant functions of the release.         *)
(***************************************************************************)
EXTENDS Naturals, FiniteSets

CONSTANTS
  Capsules,       \* capsule ids: a file name and an extraction directory each
  Releases,       \* the contents a .kxcap file may have
  Artifacts,      \* artifact ids
  Instances,      \* instance ids
  Nothing,        \* no file, no directory, no entry, no capsule

  Offers,         \* which contents are imported under which capsule id
  Checks,         \* the values "verify" is called with
  Overwrites,     \* the values "overwrite" is called with

  ArtifactOf,     \* the artifact a release is a version of
  Genuine,        \* releases the verifier passes
  Needs,          \* artifacts a release's required_dependencies name
  Accepts,        \* releases whose version satisfies its constraints
  Provides,       \* its capabilities.provides
  Requires,       \* its capabilities.requires
  Fixed,          \* releases that are not removable
  Contributes,    \* releases with an admissible integrated UI manifest

  MaxGeneration,  \* bound: how many registry writes a behaviour has
  Faults,         \* bound: how many file operations fail
  Crashes         \* bound: how often the Agent dies and comes back

\* An entry of the registry.
Entry == [release : Releases, capsule : Capsules, verified : BOOLEAN]

ASSUME StoreAssumption ==
  /\ Nothing \notin Capsules \union Releases \union Entry
  /\ Offers \subseteq Capsules \X Releases
  /\ Checks \subseteq BOOLEAN /\ Overwrites \subseteq BOOLEAN
  /\ ArtifactOf \in [Releases -> Artifacts]
  /\ Genuine \subseteq Releases
  /\ Needs \in [Releases -> SUBSET Artifacts]
  /\ Contributes \subseteq Releases

ASSUME BoundsAssumption == MaxGeneration \in Nat /\ Faults \in Nat /\ Crashes \in Nat

VARIABLES
  stored,         \* the capsule file of each capsule id
  extracted,      \* its extraction directory
  registry,       \* installed-artifacts.json: "artifacts"
  generation,     \* installed-artifacts.json: "generation"
  runtime,        \* the capsule each instance's compose file runs
  recorded,       \* the capsule each instance-state.json names
  op,             \* the request in progress
  seen,           \* what a discovery client sees between two requests
  faults, crashes

vars == <<stored, extracted, registry, generation, runtime, recorded, op, seen,
          faults, crashes>>
files == <<stored, extracted>>
index == <<registry, generation>>
instances == <<runtime, recorded>>
budgets == <<faults, crashes>>

\* One request: its input, how far it has come, and its local variables.
\* "image" is the content taken out of the capsule file, "aside" the previous
\* extraction directory, kept until the new one is in place.
Import == [step : {"verify", "extract", "swap", "register"},
           capsule : Capsules, overwrite : BOOLEAN, verified : BOOLEAN,
           image : Releases \union {Nothing}, aside : Releases \union {Nothing}]
Removal == [step : {"unlink", "rmtree", "forget"}, artifact : Artifacts]
Idle == [step |-> "idle"]

Installed == {a \in Artifacts : registry[a] # Nothing}

\* GET /v1/artifacts/{id}/integration-manifest: the manifest file inside the
\* extraction directory of an entry whose contribution was admitted.
Served(a) ==
  IF /\ registry[a] # Nothing
     /\ registry[a].verified
     /\ registry[a].release \in Contributes
  THEN extracted[registry[a].capsule]
  ELSE Nothing

View == [generation |-> generation, served |-> [a \in Artifacts |-> Served(a)]]

TypeOK ==
  /\ stored \in [Capsules -> Releases \union {Nothing}]
  /\ extracted \in [Capsules -> Releases \union {Nothing}]
  /\ registry \in [Artifacts -> Entry \union {Nothing}]
  /\ generation \in Nat
  /\ runtime \in [Instances -> Capsules \union {Nothing}]
  /\ recorded \in [Instances -> Capsules \union {Nothing}]
  /\ op \in Import \union Removal \union {Idle}
  /\ seen \in [generation : Nat, served : [Artifacts -> Releases \union {Nothing}]]
  /\ faults \in 0..Faults
  /\ crashes \in 0..Crashes

Init ==
  /\ stored = [c \in Capsules |-> Nothing]
  /\ extracted = [c \in Capsules |-> Nothing]
  /\ registry = [a \in Artifacts |-> Nothing]
  /\ generation = 0
  /\ runtime = [i \in Instances |-> Nothing]
  /\ recorded = [i \in Instances |-> Nothing]
  /\ op = Idle
  /\ seen = [generation |-> 0, served |-> [a \in Artifacts |-> Nothing]]
  /\ faults = 0
  /\ crashes = 0

\* The request is answered; whatever it left behind is what clients see next.
Answer == op' = Idle /\ seen' = View'
Continue(request) == op' = request /\ seen' = seen

Fault == faults < Faults /\ faults' = faults + 1 /\ UNCHANGED crashes

-----------------------------------------------------------------------------
(* import_capsule                                                          *)

\* resolve_source_path .. atomic_copy_file
BeginImport(c, r, overwrite, check) ==
  /\ op = Idle
  /\ generation < MaxGeneration
  /\ overwrite \/ stored[c] = Nothing          \* else CapsuleAlreadyExistsError
  /\ stored' = [stored EXCEPT ![c] = r]
  /\ Continue([step |-> IF check THEN "verify" ELSE "extract",
               capsule |-> c, overwrite |-> overwrite, verified |-> FALSE,
               image |-> Nothing, aside |-> Nothing])
  /\ UNCHANGED <<extracted, index, instances, budgets>>

\* Every exception after the copy: the copied file is removed again, unless
\* it was allowed to overwrite.
Abandon ==
  /\ stored' = IF op.overwrite THEN stored ELSE [stored EXCEPT ![op.capsule] = Nothing]
  /\ Answer

\* Mutant: any report of the verifier counts as a pass.
VerifyPassesAny ==
  /\ op.step = "verify"
  /\ Continue([op EXCEPT !.step = "extract", !.verified = TRUE])
  /\ UNCHANGED <<files, index, instances, budgets>>

VerifyPasses ==
  /\ op.step = "verify"
  /\ stored[op.capsule] \in Genuine
  /\ Continue([op EXCEPT !.step = "extract", !.verified = TRUE])
  /\ UNCHANGED <<files, index, instances, budgets>>

VerifyFails ==
  /\ op.step = "verify"
  /\ stored[op.capsule] \notin Genuine
  /\ UNCHANGED <<extracted, index, instances, budgets>>
  /\ Abandon

\* Extraction into a temporary directory, layout check, and the first move of
\* _replace_directory_with_backup.
SetAside ==
  /\ op.step = "extract"
  /\ Continue([op EXCEPT !.step = "swap", !.image = stored[op.capsule],
                         !.aside = extracted[op.capsule]])
  /\ extracted' = [extracted EXCEPT ![op.capsule] = Nothing]
  /\ UNCHANGED <<stored, index, instances, budgets>>

\* Bad archive, missing root files, full disk.
ExtractFails ==
  /\ op.step = "extract"
  /\ Fault
  /\ UNCHANGED <<extracted, index, instances>>
  /\ Abandon

SwapIn ==
  /\ op.step = "swap"
  /\ extracted' = [extracted EXCEPT ![op.capsule] = op.image]
  /\ Continue([op EXCEPT !.step = "register"])
  /\ UNCHANGED <<stored, index, instances, budgets>>

\* The second move fails: the old directory is moved back.
SwapFails ==
  /\ op.step = "swap"
  /\ Fault
  /\ extracted' = [extracted EXCEPT ![op.capsule] = op.aside]
  /\ UNCHANGED <<index, instances>>
  /\ Abandon

\* _validate_dependencies of the new descriptor against the registry as it is,
\* the artifact's own previous entry included.
Satisfied(r) ==
  /\ \A a \in Needs[r] : a \in Installed /\ registry[a].release \in Accepts[r]
  /\ Requires[r] \subseteq UNION {Provides[registry[a].release] : a \in Installed}

\* Mutant: an upgrade keeps the capsule its previous entry names.
RegisteredInPlace ==
  LET r == extracted[op.capsule]
      a == ArtifactOf[r]
  IN  [registry EXCEPT ![a] =
         [release |-> r, verified |-> op.verified,
          capsule |-> IF a \in Installed THEN registry[a].capsule ELSE op.capsule]]

\* _build_entry, put under the artifact id of the descriptor.
Registered ==
  LET r == extracted[op.capsule]
  IN  [registry EXCEPT ![ArtifactOf[r]] =
         [release |-> r, capsule |-> op.capsule, verified |-> op.verified]]

\* register_artifact_from_capsule: one atomic replacement of the registry.
Register ==
  /\ op.step = "register"
  /\ Satisfied(extracted[op.capsule])
  /\ registry' = Registered
  /\ generation' = generation + 1
  /\ UNCHANGED <<files, instances, budgets>>
  /\ Answer

\* ArtifactDependencyError: the new extraction directory stays in place.
RegisterRefused ==
  /\ op.step = "register"
  /\ ~Satisfied(extracted[op.capsule])
  /\ UNCHANGED <<extracted, index, instances, budgets>>
  /\ Abandon

RegisterFails ==
  /\ op.step = "register"
  /\ Fault
  /\ UNCHANGED <<extracted, index, instances>>
  /\ Abandon

\* The registry is replaced but reading its generation back fails.
RegisterUnread ==
  /\ op.step = "register"
  /\ Satisfied(extracted[op.capsule])
  /\ Fault
  /\ registry' = Registered
  /\ generation' = generation + 1
  /\ UNCHANGED <<extracted, instances>>
  /\ Abandon

-----------------------------------------------------------------------------
(* remove_artifact                                                         *)

\* Mutant: only capabilities hold an artifact back.
NoRequiredDependents(a) == {}

RequiredDependents(a) == {b \in Installed \ {a} : a \in Needs[registry[b].release]}

\* Mutant: only required artifacts hold an artifact back.
NoCapabilityDependents(a) == {}

CapabilityDependents(a) ==
  LET others == Installed \ {a}
      lost == Provides[registry[a].release]
                \ UNION {Provides[registry[b].release] : b \in others}
  IN  {b \in others : Requires[registry[b].release] \intersect lost # {}}

\* _instances_using_capsule reads instance-state.json, which nothing writes.
InstancesUsing(c) == {i \in Instances : recorded[i] = c}

BeginRemove(a) ==
  /\ op = Idle
  /\ generation < MaxGeneration
  /\ registry[a] # Nothing
  /\ registry[a].release \notin Fixed
  /\ RequiredDependents(a) = {}
  /\ CapabilityDependents(a) = {}
  /\ InstancesUsing(registry[a].capsule) = {}
  /\ Continue([step |-> "unlink", artifact |-> a])
  /\ UNCHANGED <<files, index, instances, budgets>>

UnlinkCapsule ==
  /\ op.step = "unlink"
  /\ stored' = [stored EXCEPT ![registry[op.artifact].capsule] = Nothing]
  /\ Continue([op EXCEPT !.step = "rmtree"])
  /\ UNCHANGED <<extracted, index, instances, budgets>>

DeleteTree ==
  /\ op.step = "rmtree"
  /\ extracted' = [extracted EXCEPT ![registry[op.artifact].capsule] = Nothing]
  /\ Continue([op EXCEPT !.step = "forget"])
  /\ UNCHANGED <<stored, index, instances, budgets>>

\* Mutant: a removal leaves the generation alone.
ForgetQuietly ==
  /\ op.step = "forget"
  /\ registry' = [registry EXCEPT ![op.artifact] = Nothing]
  /\ UNCHANGED <<files, generation, instances, budgets>>
  /\ Answer

Forget ==
  /\ op.step = "forget"
  /\ registry' = [registry EXCEPT ![op.artifact] = Nothing]
  /\ generation' = generation + 1
  /\ UNCHANGED <<files, instances, budgets>>
  /\ Answer

\* unlink, rmtree or the registry write raises; nothing is put back.  A tree
\* that is deleted in part counts as gone once its manifest files are.
RemoveFails ==
  /\ op.step \in {"unlink", "rmtree", "forget"}
  /\ Fault
  /\ \/ extracted' = extracted
     \/ /\ op.step = "rmtree"
        /\ extracted' = [extracted EXCEPT ![registry[op.artifact].capsule] = Nothing]
  /\ UNCHANGED <<stored, index, instances>>
  /\ Answer

-----------------------------------------------------------------------------
\* Mutant: the compose file names the content instead of the capsule.
CreateInstanceByContent(i, c) ==
  /\ op = Idle
  /\ runtime' = [runtime EXCEPT ![i] = stored[c]]
  /\ UNCHANGED <<files, index, recorded, op, seen, budgets>>

\* handle_instance_create: the compose file names the capsule; the instance's
\* state file is not touched.
CreateInstance(i, c) ==
  /\ op = Idle
  /\ runtime' = [runtime EXCEPT ![i] = c]
  /\ UNCHANGED <<files, index, recorded, op, seen, budgets>>

\* The Agent dies and is started again.  Temporary and set-aside directories
\* stay behind under names nothing reads.
Crash ==
  /\ crashes < Crashes
  /\ crashes' = crashes + 1
  /\ UNCHANGED <<files, index, instances, faults>>
  /\ Answer

ImportStep == VerifyPasses \/ VerifyFails \/ SetAside \/ ExtractFails \/ SwapIn
              \/ SwapFails \/ Register \/ RegisterRefused \/ RegisterFails
              \/ RegisterUnread
RemoveStep == UnlinkCapsule \/ DeleteTree \/ Forget \/ RemoveFails

Next ==
  \/ \E offer \in Offers, overwrite \in Overwrites, check \in Checks :
       BeginImport(offer[1], offer[2], overwrite, check)
  \/ ImportStep
  \/ \E a \in Artifacts : BeginRemove(a)
  \/ RemoveStep
  \/ \E i \in Instances, c \in Capsules : CreateInstance(i, c)
  \/ Crash

Spec == Init /\ [][Next]_vars

-----------------------------------------------------------------------------
(* Properties.                                                             *)

\* No upgrade, removal, failure or crash leaves an artifact installed without
\* the artifacts it requires.
RequiredInstalled ==
  \A a \in Installed : Needs[registry[a].release] \subseteq Installed

\* An entry marked verified describes content the verifier passed, although
\* the verifier, the extraction and the registration read the files one after
\* another and other content may be imported under the same capsule id.
VerifiedIsGenuine ==
  \A a \in Installed : registry[a].verified => registry[a].release \in Genuine

\* Both at once: what the registry says stays sound through every failure,
\* crash and reuse of a capsule id.
RegistrySound == RequiredInstalled /\ VerifiedIsGenuine

\* Between requests every entry has its capsule file and its extraction
\* directory, and they hold the release it was registered for.
\* (Needs a capsule id per release and no failure in mid-request.)
EntryMatchesFiles ==
  op = Idle => \A a \in Installed :
    /\ stored[registry[a].capsule] = registry[a].release
    /\ extracted[registry[a].capsule] = registry[a].release

\* What an installed artifact requires is there: accepted releases of the
\* artifacts it needs, and a provider of each capability.
Supported(a) ==
  LET r == registry[a].release
  IN  /\ \A d \in Needs[r] : d \in Installed /\ registry[d].release \in Accepts[r]
      /\ Requires[r] \subseteq UNION {Provides[registry[b].release] : b \in Installed}
Broken == {a \in Installed : ~Supported(a)}

\* An artifact loses what it requires in one way only: another release takes the
\* place of one it relies on (its own earlier one included), which has dropped
\* the capability or is not a release it accepts.  No removal, failure, crash or
\* reuse of a capsule id does that, and nothing comes in unsupported.
\* (_validate_dependencies asks what the new release requires, not who requires
\* the old one: DOC-23, "Required capabilities must have an installed provider",
\* lasts only until the next upgrade.)
Replaced(d) == registry[d] # Nothing /\ registry'[d] # Nothing
               /\ registry'[d].release # registry[d].release
LetsDown(d, r) ==
  LET old == registry[d].release
      new == registry'[d].release
  IN  \/ d \in Needs[r] /\ old \in Accepts[r] /\ new \notin Accepts[r]
      \/ Requires[r] \intersect (Provides[old] \ Provides[new]) # {}
BrokenByUpgrade ==
  \A a \in Broken' \ Broken :
    \E d \in Artifacts : Replaced(d) /\ LetsDown(d, registry'[a].release)
OnlyUpgradesBreak == [][BrokenByUpgrade]_vars

\* DOC-23: "A composition host can refresh only when the generation changes":
\* what discovery clients are served changes only with the generation.
FollowGeneration == seen'.generation = seen.generation => seen'.served = seen.served
ViewFollowsGeneration == [][FollowGeneration]_vars

\* The registry implements the inventory: although validation, deletions and
\* the registry write are steps of their own that may fail or be cut off, each
\* change is one that the registry allows in the moment it is made.
Stock == INSTANCE Inventory WITH
  installed <- [a \in Artifacts |->
                  IF registry[a] = Nothing THEN Nothing ELSE registry[a].release]
RegistryIsInventory == Stock!InventorySpec
=============================================================================
