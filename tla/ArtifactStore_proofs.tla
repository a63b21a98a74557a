----------------------- MODULE ArtifactStore_proofs -----------------------
(***************************************************************************)
(* Theorems about ArtifactStore, for every inventory of capsules, releases *)
(* and artifacts and every number of faults and crashes.                   *)
(***************************************************************************)
EXTENDS ArtifactStore, TLAPS

\* What the request in progress has established.  The content an import
\* extracts and registers is the content that was verified, because nobody
\* else writes the three stores meanwhile; and nothing comes to depend on an
\* artifact between the checks of a removal and its registry write.
Progress ==
  /\ op.step \in {"verify", "extract"} => stored[op.capsule] # Nothing
  /\ op.step \in {"swap", "register"} => op.image # Nothing
  /\ op.step = "register" => extracted[op.capsule] = op.image
  /\ op.step = "verify" => ~op.verified
  /\ op.step = "extract" /\ op.verified => stored[op.capsule] \in Genuine
  /\ op.step \in {"swap", "register"} /\ op.verified => op.image \in Genuine
  /\ op.step \in {"unlink", "rmtree", "forget"} =>
       registry[op.artifact] # Nothing /\ RequiredDependents(op.artifact) = {}

Sound == TypeOK /\ Progress

\* What a discovery client sees is made of releases.
LEMMA ViewType ==
  ASSUME registry \in [Artifacts -> Entry \union {Nothing}],
         extracted \in [Capsules -> Releases \union {Nothing}],
         generation \in Nat
  PROVE  View \in [generation : Nat, served : [Artifacts -> Releases \union {Nothing}]]
<1>1. ASSUME NEW a \in Artifacts PROVE Served(a) \in Releases \union {Nothing}
  BY DEF Served, Entry
<1> QED BY <1>1 DEF View

\* The steps an import goes through are import records, those of a removal
\* are removal records.
LEMMA Steps ==
  ASSUME op \in Import \union Removal \union {Idle}
  PROVE  /\ op.step \in {"verify", "extract", "swap", "register"} => op \in Import
         /\ op.step \in {"unlink", "rmtree", "forget"} => op \in Removal
BY DEF Import, Removal, Idle

LEMMA AnswerSound ==
  ASSUME Answer,
         registry' \in [Artifacts -> Entry \union {Nothing}],
         stored' \in [Capsules -> Releases \union {Nothing}],
         extracted' \in [Capsules -> Releases \union {Nothing}],
         generation' \in Nat,
         runtime' \in [Instances -> Capsules \union {Nothing}],
         recorded' \in [Instances -> Capsules \union {Nothing}],
         faults' \in 0..Faults,
         crashes' \in 0..Crashes
  PROVE  Sound'
<1>1. View' \in [generation : Nat, served : [Artifacts -> Releases \union {Nothing}]]
  <2>1. ASSUME NEW a \in Artifacts PROVE Served(a)' \in Releases \union {Nothing}
    BY DEF Served, Entry
  <2> QED BY <2>1 DEF View
<1>2. op' = Idle /\ seen' = View'
  BY DEF Answer
<1>3. TypeOK'
  BY <1>1, <1>2 DEF TypeOK
<1>4. Progress'
  BY <1>2 DEF Progress, Idle
<1> QED BY <1>3, <1>4 DEF Sound

\* What a registration may rely on.
LEMMA RegisteredRelease ==
  ASSUME Sound, op.step = "register"
  PROVE  /\ op \in Import
         /\ op.capsule \in Capsules
         /\ op.verified \in BOOLEAN
         /\ extracted[op.capsule] \in Releases
         /\ ArtifactOf[extracted[op.capsule]] \in Artifacts
         /\ op.verified => extracted[op.capsule] \in Genuine
         /\ Registered \in [Artifacts -> Entry \union {Nothing}]
<1>1. op \in Import
  BY Steps DEF Sound, TypeOK
<1>2. op.capsule \in Capsules /\ op.verified \in BOOLEAN
  BY <1>1 DEF Import
<1>3. extracted[op.capsule] \in Releases /\ (op.verified => extracted[op.capsule] \in Genuine)
  BY <1>1, <1>2 DEF Sound, Progress, TypeOK, Import
<1>4. ArtifactOf[extracted[op.capsule]] \in Artifacts
  BY <1>3, StoreAssumption
<1>5. Registered \in [Artifacts -> Entry \union {Nothing}]
  BY <1>2, <1>3, <1>4 DEF Registered, Entry, Sound, TypeOK
<1> QED BY <1>1, <1>2, <1>3, <1>4, <1>5

\* The steps of an import keep the three stores, the request and what it has
\* established in order.
LEMMA ImportSound ==
  ASSUME Sound, ImportStep
  PROVE  Sound'
<1> USE BoundsAssumption
<1>0. op.step \in {"verify", "extract", "swap", "register"}
  BY DEF ImportStep, VerifyPasses, VerifyFails, SetAside, ExtractFails, SwapIn, SwapFails,
         Register, RegisterRefused, RegisterFails, RegisterUnread
<1>1. op \in Import /\ op.capsule \in Capsules
  BY <1>0, Steps DEF Sound, TypeOK, Import
<1>2. CASE VerifyPasses
  <2>1. op' = [op EXCEPT !.step = "extract", !.verified = TRUE] /\ op' \in Import
    BY <1>1, <1>2 DEF VerifyPasses, Continue, Import
  <2>2. op'.step = "extract" /\ op'.capsule = op.capsule
    BY <1>1, <2>1 DEF Import
  <2>3. TypeOK'
    BY <1>2, <2>1 DEF VerifyPasses, Continue, files, index, instances, budgets, Sound, TypeOK
  <2>4. Progress'
    BY <1>2, <2>2 DEF VerifyPasses, files, index, Sound, Progress
  <2> QED BY <2>3, <2>4 DEF Sound
<1>3. CASE SetAside
  <2>1. /\ op' = [op EXCEPT !.step = "swap", !.image = stored[op.capsule],
                            !.aside = extracted[op.capsule]]
        /\ stored[op.capsule] \in Releases
        /\ extracted[op.capsule] \in Releases \union {Nothing}
    BY <1>1, <1>3 DEF SetAside, Continue, Sound, Progress, TypeOK
  <2>2. op' \in Import
    BY <1>1, <2>1 DEF Import
  <2>3. op'.step = "swap" /\ op'.image = stored[op.capsule] /\ op'.verified = op.verified
    BY <1>1, <2>1 DEF Import
  <2>4. TypeOK'
    BY <1>3, <2>2 DEF SetAside, Continue, index, instances, budgets, Sound, TypeOK
  <2>5. Progress'
    BY <1>3, <2>1, <2>3, StoreAssumption DEF SetAside, Sound, Progress
  <2> QED BY <2>4, <2>5 DEF Sound
<1>4. CASE SwapIn
  <2>1. op' = [op EXCEPT !.step = "register"] /\ op.image \in Releases
    BY <1>1, <1>4 DEF SwapIn, Continue, Sound, Progress, Import
  <2>2. op' \in Import
    BY <1>1, <2>1 DEF Import
  <2>3. /\ op'.step = "register" /\ op'.image = op.image /\ op'.verified = op.verified
        /\ op'.capsule = op.capsule
    BY <1>1, <2>1 DEF Import
  <2>4. TypeOK'
    BY <1>1, <1>4, <2>1, <2>2 DEF SwapIn, Continue, index, instances, budgets, Sound, TypeOK
  <2>5. extracted'[op'.capsule] = op'.image
    BY <1>1, <1>4, <2>3 DEF SwapIn, Sound, TypeOK
  <2>6. Progress'
    BY <1>4, <2>1, <2>3, <2>5 DEF SwapIn, Sound, Progress
  <2> QED BY <2>4, <2>6 DEF Sound
<1>5. CASE VerifyFails
  BY <1>1, <1>5, AnswerSound
     DEF VerifyFails, Abandon, index, instances, budgets, Sound, TypeOK
<1>6. CASE ExtractFails
  BY <1>1, <1>6, AnswerSound
     DEF ExtractFails, Fault, Abandon, index, instances, Sound, TypeOK
<1>7. CASE SwapFails
  <2>1. op.aside \in Releases \union {Nothing}
    BY <1>1 DEF Import
  <2> QED BY <1>1, <1>7, <2>1, AnswerSound
     DEF SwapFails, Fault, Abandon, index, instances, Sound, TypeOK
<1>8. CASE RegisterRefused
  BY <1>1, <1>8, AnswerSound
     DEF RegisterRefused, Abandon, index, instances, budgets, Sound, TypeOK
<1>9. CASE RegisterFails
  BY <1>1, <1>9, AnswerSound
     DEF RegisterFails, Fault, Abandon, index, instances, Sound, TypeOK
<1>10. CASE Register
  BY <1>10, RegisteredRelease, AnswerSound
     DEF Register, files, instances, budgets, Sound, TypeOK
<1>11. CASE RegisterUnread
  BY <1>1, <1>11, RegisteredRelease, AnswerSound
     DEF RegisterUnread, Fault, Abandon, instances, Sound, TypeOK
<1> QED BY <1>2, <1>3, <1>4, <1>5, <1>6, <1>7, <1>8, <1>9, <1>10, <1>11 DEF ImportStep

\* The steps of a removal.
LEMMA RemoveSound ==
  ASSUME Sound, RemoveStep
  PROVE  Sound'
<1> USE BoundsAssumption
<1>0. op.step \in {"unlink", "rmtree", "forget"}
  BY DEF RemoveStep, UnlinkCapsule, DeleteTree, Forget, RemoveFails
<1>1. op \in Removal
  BY <1>0, Steps DEF Sound, TypeOK
<1>2. CASE UnlinkCapsule
  <2>1. op' = [op EXCEPT !.step = "rmtree"]
    BY <1>2 DEF UnlinkCapsule, Continue
  <2>2. op' \in Removal /\ op'.step = "rmtree" /\ op'.artifact = op.artifact
    BY <1>1, <2>1 DEF Removal
  <2>3. TypeOK'
    BY <1>2, <2>2 DEF UnlinkCapsule, Continue, index, instances, budgets, Sound, TypeOK
  <2>4. Progress'
    BY <1>0, <1>2, <2>2 DEF UnlinkCapsule, index, Sound, Progress, RequiredDependents, Installed
  <2> QED BY <2>3, <2>4 DEF Sound
<1>3. CASE DeleteTree
  <2>1. op' = [op EXCEPT !.step = "forget"]
    BY <1>3 DEF DeleteTree, Continue
  <2>2. op' \in Removal /\ op'.step = "forget" /\ op'.artifact = op.artifact
    BY <1>1, <2>1 DEF Removal
  <2>3. TypeOK'
    BY <1>3, <2>2 DEF DeleteTree, Continue, index, instances, budgets, Sound, TypeOK
  <2>4. Progress'
    BY <1>0, <1>3, <2>2 DEF DeleteTree, index, Sound, Progress, RequiredDependents, Installed
  <2> QED BY <2>3, <2>4 DEF Sound
<1>4. CASE Forget
  <2>1. registry' \in [Artifacts -> Entry \union {Nothing}]
    BY <1>4 DEF Forget, Sound, TypeOK
  <2>2. /\ generation' \in Nat
        /\ UNCHANGED <<stored, extracted, runtime, recorded, faults, crashes>>
        /\ Answer
    BY <1>4 DEF Forget, files, instances, budgets, Sound, TypeOK
  <2> QED BY <2>1, <2>2, AnswerSound DEF Sound, TypeOK
<1>5. CASE RemoveFails
  BY <1>5, AnswerSound DEF RemoveFails, Fault, files, index, instances, Sound, TypeOK
<1> QED BY <1>2, <1>3, <1>4, <1>5 DEF RemoveStep

LEMMA SoundStep == Sound /\ [Next]_vars => Sound'
<1> SUFFICES ASSUME Sound, [Next]_vars PROVE Sound'
  OBVIOUS
<1>1. ASSUME NEW offer \in Offers, NEW overwrite \in Overwrites, NEW check \in Checks,
             BeginImport(offer[1], offer[2], overwrite, check)
      PROVE  Sound'
  <2>1. /\ offer[1] \in Capsules /\ offer[2] \in Releases /\ offer[2] # Nothing
        /\ overwrite \in BOOLEAN
    BY StoreAssumption
  <2>2. /\ op' \in Import
        /\ op'.step \in {"verify", "extract"}
        /\ op'.capsule = offer[1]
        /\ op'.verified = FALSE
    BY <1>1, <2>1 DEF BeginImport, Continue, Import
  <2>3. TypeOK'
    BY <1>1, <2>1, <2>2
       DEF BeginImport, Continue, index, instances, budgets, Sound, TypeOK
  <2>4. stored'[op'.capsule] # Nothing
    BY <1>1, <2>1, <2>2 DEF BeginImport, Sound, TypeOK
  <2>5. Progress'
    BY <2>2, <2>4 DEF Progress
  <2> QED BY <2>3, <2>5 DEF Sound
<1>2. CASE ImportStep
  BY <1>2, ImportSound
<1>3. ASSUME NEW a \in Artifacts, BeginRemove(a) PROVE Sound'
  <2>1. op' \in Removal /\ op'.step = "unlink" /\ op'.artifact = a
    BY <1>3 DEF BeginRemove, Continue, Removal
  <2>2. TypeOK'
    BY <1>3, <2>1
       DEF BeginRemove, Continue, files, index, instances, budgets, Sound, TypeOK
  <2>3. Progress'
    BY <1>3, <2>1 DEF BeginRemove, index, Progress, RequiredDependents, Installed
  <2> QED BY <2>2, <2>3 DEF Sound
<1>4. CASE RemoveStep
  BY <1>4, RemoveSound
<1>5. ASSUME NEW i \in Instances, NEW c \in Capsules, CreateInstance(i, c) PROVE Sound'
  <2>1. TypeOK'
    BY <1>5 DEF CreateInstance, files, index, budgets, Sound, TypeOK
  <2>2. Progress'
    BY <1>5 DEF CreateInstance, files, index, Sound, Progress, RequiredDependents, Installed
  <2> QED BY <2>1, <2>2 DEF Sound
<1>6. CASE Crash
  BY <1>6, BoundsAssumption, AnswerSound DEF Crash, files, index, instances, Sound, TypeOK
<1>7. CASE UNCHANGED vars
  BY <1>7 DEF vars, Sound, TypeOK, Progress, RequiredDependents, Installed
<1> QED BY <1>1, <1>2, <1>3, <1>4, <1>5, <1>6, <1>7 DEF Next

LEMMA InitSound == Init => Sound
<1> SUFFICES ASSUME Init PROVE Sound
  OBVIOUS
<1>1. TypeOK
  BY BoundsAssumption DEF Init, TypeOK
<1>2. Progress
  BY DEF Init, Progress, Idle
<1> QED BY <1>1, <1>2 DEF Sound

\* Every variable of the artifact store keeps its type.
THEOREM Typing == Spec => []TypeOK
<1>1. Spec => []Sound
  BY InitSound, SoundStep, PTL DEF Spec
<1> QED BY <1>1, PTL DEF Sound

-----------------------------------------------------------------------------
(* The registry.                                                           *)

\* The two invariants of the registry speak of it alone.
LEMMA RegistryAlone ==
  ASSUME UNCHANGED registry
  PROVE  /\ RequiredInstalled => RequiredInstalled'
         /\ VerifiedIsGenuine => VerifiedIsGenuine'
BY DEF RequiredInstalled, VerifiedIsGenuine, Installed

\* Only a registration and the end of a removal write the registry, with a
\* generation of their own.
LEMMA RegistryWriters ==
  ASSUME [Next]_vars
  PROVE  \/ UNCHANGED registry /\ UNCHANGED generation
         \/ /\ op.step = "register"
            /\ Satisfied(extracted[op.capsule])
            /\ registry' = Registered
            /\ generation' = generation + 1
         \/ Forget
<1>1. ASSUME NEW offer \in Offers, NEW overwrite \in Overwrites, NEW check \in Checks,
             BeginImport(offer[1], offer[2], overwrite, check)
      PROVE  UNCHANGED index
  BY <1>1 DEF BeginImport, index
<1>2. CASE ImportStep
  BY <1>2 DEF ImportStep, VerifyPasses, VerifyFails, SetAside, ExtractFails, SwapIn, SwapFails,
              Register, RegisterRefused, RegisterFails, RegisterUnread, index
<1>3. ASSUME NEW a \in Artifacts, BeginRemove(a) PROVE UNCHANGED index
  BY <1>3 DEF BeginRemove, index
<1>4. CASE RemoveStep
  BY <1>4 DEF RemoveStep, UnlinkCapsule, DeleteTree, RemoveFails, index
<1>5. ASSUME NEW i \in Instances, NEW c \in Capsules, CreateInstance(i, c)
      PROVE  UNCHANGED index
  BY <1>5 DEF CreateInstance, index
<1>6. CASE Crash
  BY <1>6 DEF Crash, index
<1>7. CASE UNCHANGED vars
  BY <1>7 DEF vars
<1> QED BY <1>1, <1>2, <1>3, <1>4, <1>5, <1>6, <1>7 DEF Next, index

LEMMA RequiredStep == Sound /\ RequiredInstalled /\ [Next]_vars => RequiredInstalled'
<1> SUFFICES ASSUME Sound, RequiredInstalled, [Next]_vars PROVE RequiredInstalled'
  OBVIOUS
<1>1. CASE UNCHANGED registry
  BY <1>1, RegistryAlone
<1>2. ASSUME op.step = "register", Satisfied(extracted[op.capsule]), registry' = Registered
      PROVE  RequiredInstalled'
  <2> DEFINE r == extracted[op.capsule]
             entry == [release |-> r, capsule |-> op.capsule, verified |-> op.verified]
  <2>1. r \in Releases /\ ArtifactOf[r] \in Artifacts /\ op.capsule \in Capsules
        /\ op.verified \in BOOLEAN
    BY <1>2, RegisteredRelease
  <2>2. entry \in Entry
    BY <2>1 DEF Entry
  <2>3. registry' = [registry EXCEPT ![ArtifactOf[r]] = entry]
    BY <1>2 DEF Registered
  <2>4. entry # Nothing
    BY <2>2, StoreAssumption
  <2>5. Installed' = Installed \union {ArtifactOf[r]}
    BY <2>1, <2>3, <2>4 DEF Installed, Sound, TypeOK
  <2>6. Needs[r] \subseteq Installed
    BY <1>2, <2>1, StoreAssumption DEF Satisfied
  <2> QED BY <2>1, <2>3, <2>5, <2>6 DEF RequiredInstalled, Installed, Sound, TypeOK
<1>3. CASE Forget
  <2>1. /\ registry' = [registry EXCEPT ![op.artifact] = Nothing]
        /\ RequiredDependents(op.artifact) = {}
    BY <1>3 DEF Forget, Sound, Progress
  <2>2. Installed' = Installed \ {op.artifact}
    BY <2>1 DEF Installed, Sound, TypeOK
  <2> QED BY <2>1, <2>2 DEF RequiredInstalled, RequiredDependents, Installed, Sound, TypeOK
<1> QED BY <1>1, <1>2, <1>3, RegistryWriters

LEMMA GenuineStep == Sound /\ VerifiedIsGenuine /\ [Next]_vars => VerifiedIsGenuine'
<1> SUFFICES ASSUME Sound, VerifiedIsGenuine, [Next]_vars PROVE VerifiedIsGenuine'
  OBVIOUS
<1>1. CASE UNCHANGED registry
  BY <1>1, RegistryAlone
<1>2. ASSUME op.step = "register", registry' = Registered PROVE VerifiedIsGenuine'
  BY <1>2, RegisteredRelease DEF Registered, VerifiedIsGenuine, Installed, Sound, TypeOK
<1>3. CASE Forget
  BY <1>3 DEF Forget, VerifiedIsGenuine, Installed, Sound, TypeOK
<1> QED BY <1>1, <1>2, <1>3, RegistryWriters

\* No upgrade, removal, failure or crash leaves an artifact installed without
\* an artifact it requires (_validate_dependencies on registration,
\* _required_dependents on removal).
THEOREM RequiredTheorem == Spec => []RequiredInstalled
<1>1. Init => RequiredInstalled
  BY DEF Init, RequiredInstalled, Installed
<1>2. Spec => [](Sound /\ RequiredInstalled)
  BY <1>1, InitSound, SoundStep, RequiredStep, PTL DEF Spec
<1> QED BY <1>2, PTL

\* What the registry calls verified is content the verifier passed, whatever
\* else was imported under the same capsule id before, between or after.
THEOREM GenuineTheorem == Spec => []VerifiedIsGenuine
<1>1. Init => VerifiedIsGenuine
  BY DEF Init, VerifiedIsGenuine, Installed
<1>2. Spec => [](Sound /\ VerifiedIsGenuine)
  BY <1>1, InitSound, SoundStep, GenuineStep, PTL DEF Spec
<1> QED BY <1>2, PTL

\* What the registry says stays sound through every failure, every crash and
\* every reuse of a capsule id.
THEOREM RegistryTheorem == Spec => []RegistrySound
BY RequiredTheorem, GenuineTheorem, PTL DEF RegistrySound

-----------------------------------------------------------------------------
(* Dependencies.                                                           *)

\* The contents somebody imports.
Offered == {offer[2] : offer \in Offers}

\* What every file and every entry holds was imported under that capsule id,
\* and an entry stands under the artifact its release is a version of.
FilesOffered ==
  \A c \in Capsules : /\ stored[c] # Nothing => <<c, stored[c]>> \in Offers
                      /\ extracted[c] # Nothing => <<c, extracted[c]>> \in Offers
RequestOffered ==
  /\ op.step \in {"swap", "register"} => <<op.capsule, op.image>> \in Offers
  /\ op.step = "swap" /\ op.aside # Nothing => <<op.capsule, op.aside>> \in Offers
EntriesOffered ==
  \A a \in Installed : /\ <<registry[a].capsule, registry[a].release>> \in Offers
                       /\ ArtifactOf[registry[a].release] = a
OnlyOffered == FilesOffered /\ RequestOffered /\ EntriesOffered

\* An offer is a pair; its content is offered.
LEMMA OfferPair ==
  /\ \A offer \in Offers : /\ offer = <<offer[1], offer[2]>>
                           /\ offer[1] \in Capsules /\ offer[2] \in Releases
  /\ \A c, r : <<c, r>> \in Offers => c \in Capsules /\ r \in Releases /\ r \in Offered
<1>1. \A offer \in Offers : /\ offer = <<offer[1], offer[2]>>
                            /\ offer[1] \in Capsules /\ offer[2] \in Releases
  BY StoreAssumption
<1>2. ASSUME NEW c, NEW r, <<c, r>> \in Offers
      PROVE  c \in Capsules /\ r \in Releases /\ r \in Offered
  <2>1. <<c, r>>[1] = c /\ <<c, r>>[2] = r
    OBVIOUS
  <2> QED BY <1>1, <1>2, <2>1 DEF Offered
<1> QED BY <1>1, <1>2

\* The steps that write a capsule file or an extraction directory of c.
LEMMA FileWriters ==
  ASSUME Sound, [Next]_vars, NEW c \in Capsules
  PROVE  /\ \/ stored'[c] \in {stored[c], Nothing}
            \/ <<c, stored'[c]>> \in Offers
         /\ \/ extracted'[c] \in {extracted[c], Nothing}
            \/ op.step = "swap" /\ op.capsule = c /\ extracted'[c] \in {op.image, op.aside}
<1> USE DEF Sound, TypeOK, files
<1>1. ASSUME NEW offer \in Offers, NEW overwrite \in Overwrites, NEW check \in Checks,
             BeginImport(offer[1], offer[2], overwrite, check)
      PROVE  /\ stored'[c] = stored[c] \/ <<c, stored'[c]>> \in Offers
             /\ extracted' = extracted
  BY <1>1, OfferPair DEF BeginImport
<1>2. CASE ImportStep
  <2>1. op.step \in {"verify", "extract", "swap", "register"}
    BY <1>2 DEF ImportStep, VerifyPasses, VerifyFails, SetAside, ExtractFails, SwapIn, SwapFails,
                Register, RegisterRefused, RegisterFails, RegisterUnread
  <2>2. op.capsule \in Capsules
    BY <2>1, Steps DEF Import
  <2>3. CASE SwapIn \/ SwapFails
    BY <2>2, <2>3 DEF SwapIn, SwapFails, Abandon
  <2>4. CASE VerifyPasses \/ SetAside \/ Register
    BY <2>2, <2>4 DEF VerifyPasses, SetAside, Register
  <2>5. CASE VerifyFails \/ ExtractFails \/ RegisterRefused \/ RegisterFails \/ RegisterUnread
    BY <2>2, <2>5 DEF VerifyFails, ExtractFails, RegisterRefused, RegisterFails, RegisterUnread,
                      Abandon
  <2> QED BY <1>2, <2>3, <2>4, <2>5 DEF ImportStep
<1>3. CASE RemoveStep
  <2>1. op.step \in {"unlink", "rmtree", "forget"}
    BY <1>3 DEF RemoveStep, UnlinkCapsule, DeleteTree, Forget, RemoveFails
  <2>2. registry[op.artifact].capsule \in Capsules
    BY <2>1, Steps DEF Removal, Progress, Entry
  <2> QED BY <1>3, <2>2 DEF RemoveStep, UnlinkCapsule, DeleteTree, Forget, RemoveFails
<1>4. ASSUME NEW a \in Artifacts, BeginRemove(a) PROVE UNCHANGED files
  BY <1>4 DEF BeginRemove
<1>5. ASSUME NEW i \in Instances, NEW k \in Capsules, CreateInstance(i, k) PROVE UNCHANGED files
  BY <1>5 DEF CreateInstance
<1>6. CASE Crash \/ UNCHANGED vars
  BY <1>6 DEF Crash, vars
<1> QED BY <1>1, <1>2, <1>3, <1>4, <1>5, <1>6 DEF Next

\* Where the local variables of an import come from.
LEMMA RequestWriters ==
  ASSUME Sound, [Next]_vars
  PROVE  /\ op'.step = "swap" /\ op' # op =>
              /\ op.step = "extract" /\ op.capsule \in Capsules
              /\ op'.capsule = op.capsule /\ op'.image = stored[op.capsule]
              /\ op'.aside = extracted[op.capsule]
         /\ op'.step = "register" /\ op' # op =>
              op.step = "swap" /\ op'.capsule = op.capsule /\ op'.image = op.image
<1>1. ASSUME NEW offer \in Offers, NEW overwrite \in Overwrites, NEW check \in Checks,
             BeginImport(offer[1], offer[2], overwrite, check)
      PROVE  op'.step \in {"verify", "extract"}
  BY <1>1 DEF BeginImport, Continue
<1>2. CASE ImportStep
  <2>1. op.step \in {"verify", "extract", "swap", "register"}
    BY <1>2 DEF ImportStep, VerifyPasses, VerifyFails, SetAside, ExtractFails, SwapIn, SwapFails,
                Register, RegisterRefused, RegisterFails, RegisterUnread
  <2>2. op \in Import /\ op.capsule \in Capsules
    BY <2>1, Steps DEF Import, Sound, TypeOK
  <2>3. CASE VerifyPasses
    BY <2>2, <2>3 DEF VerifyPasses, Continue, Import
  <2>4. CASE SetAside
    <3>1. op' = [op EXCEPT !.step = "swap", !.image = stored[op.capsule],
                           !.aside = extracted[op.capsule]]
      BY <2>4 DEF SetAside, Continue
    <3> QED BY <2>2, <2>4, <3>1 DEF SetAside, Import
  <2>5. CASE SwapIn
    BY <2>2, <2>5 DEF SwapIn, Continue, Import
  <2>6. CASE op' = Idle
    BY <2>6 DEF Idle
  <2> QED BY <1>2, <2>3, <2>4, <2>5, <2>6
       DEF ImportStep, VerifyFails, ExtractFails, SwapFails, Register, RegisterRefused,
           RegisterFails, RegisterUnread, Abandon, Answer
<1>3. CASE RemoveStep
  <2>1. op.step \in {"unlink", "rmtree", "forget"}
    BY <1>3 DEF RemoveStep, UnlinkCapsule, DeleteTree, Forget, RemoveFails
  <2>2. op \in Removal
    BY <2>1, Steps DEF Sound, TypeOK
  <2> QED BY <1>3, <2>2 DEF RemoveStep, UnlinkCapsule, DeleteTree, Forget, RemoveFails, Continue,
                            Answer, Idle, Removal
<1>4. ASSUME NEW a \in Artifacts, BeginRemove(a) PROVE op'.step = "unlink"
  BY <1>4 DEF BeginRemove, Continue
<1>5. ASSUME NEW i \in Instances, NEW k \in Capsules, CreateInstance(i, k) PROVE op' = op
  BY <1>5 DEF CreateInstance
<1>6. CASE Crash \/ UNCHANGED vars
  BY <1>6 DEF Crash, Answer, Idle, vars
<1> QED BY <1>1, <1>2, <1>3, <1>4, <1>5, <1>6 DEF Next

LEMMA OfferedStep == Sound /\ OnlyOffered /\ [Next]_vars => OnlyOffered'
<1> SUFFICES ASSUME Sound, OnlyOffered, [Next]_vars PROVE OnlyOffered'
  OBVIOUS
<1>1. FilesOffered'
  <2> SUFFICES ASSUME NEW c \in Capsules
               PROVE  /\ stored'[c] # Nothing => <<c, stored'[c]>> \in Offers
                      /\ extracted'[c] # Nothing => <<c, extracted'[c]>> \in Offers
    BY DEF FilesOffered
  <2> QED BY FileWriters DEF OnlyOffered, FilesOffered, RequestOffered
<1>2. RequestOffered'
  <2>1. CASE op' = op
    BY <2>1 DEF OnlyOffered, RequestOffered
  <2>2. CASE op' # op
    <3>1. CASE op'.step = "swap"
      <4>1. /\ op.step = "extract" /\ op.capsule \in Capsules
            /\ op'.capsule = op.capsule /\ op'.image = stored[op.capsule]
            /\ op'.aside = extracted[op.capsule]
        BY <2>2, <3>1, RequestWriters
      <4>2. stored[op.capsule] # Nothing
        BY <4>1 DEF Sound, Progress
      <4> QED BY <3>1, <4>1, <4>2 DEF OnlyOffered, FilesOffered, RequestOffered
    <3>2. CASE op'.step = "register"
      BY <2>2, <3>2, RequestWriters DEF OnlyOffered, RequestOffered
    <3> QED BY <3>1, <3>2 DEF RequestOffered
  <2> QED BY <2>1, <2>2
<1>3. EntriesOffered'
  <2>1. CASE UNCHANGED registry
    BY <2>1 DEF OnlyOffered, EntriesOffered, Installed
  <2>2. ASSUME op.step = "register", registry' = Registered PROVE EntriesOffered'
    <3>1. <<op.capsule, extracted[op.capsule]>> \in Offers
      BY <2>2 DEF OnlyOffered, RequestOffered, Sound, Progress
    <3> QED BY <2>2, <3>1, RegisteredRelease
            DEF Registered, OnlyOffered, EntriesOffered, Installed, Sound, TypeOK
  <2>3. CASE Forget
    BY <2>3 DEF Forget, OnlyOffered, EntriesOffered, Installed, Sound, TypeOK
  <2> QED BY <2>1, <2>2, <2>3, RegistryWriters
<1> QED BY <1>1, <1>2, <1>3 DEF OnlyOffered

LEMMA OfferedInvariant == Spec => [](Sound /\ OnlyOffered)
<1>1. Init => OnlyOffered
  BY DEF Init, OnlyOffered, FilesOffered, RequestOffered, EntriesOffered, Installed, Idle
<1> QED BY <1>1, InitSound, SoundStep, OfferedStep, PTL DEF Spec

\* A removal is under way only since it was let in, and the registry stays as
\* it was then.
LEMMA RemovalGoesOn ==
  ASSUME Sound, [Next]_vars, op'.step \in {"unlink", "rmtree", "forget"}
  PROVE  /\ registry' = registry
         /\ \/ /\ op.step \in {"unlink", "rmtree", "forget"}
               /\ op'.artifact = op.artifact
            \/ \E a \in Artifacts : BeginRemove(a) /\ op'.artifact = a
<1>1. ASSUME NEW offer \in Offers, NEW overwrite \in Overwrites, NEW check \in Checks,
             BeginImport(offer[1], offer[2], overwrite, check)
      PROVE  FALSE
  BY <1>1 DEF BeginImport, Continue
<1>2. CASE ImportStep
  <2>1. op.step \in {"verify", "extract", "swap", "register"}
    BY <1>2 DEF ImportStep, VerifyPasses, VerifyFails, SetAside, ExtractFails, SwapIn, SwapFails,
                Register, RegisterRefused, RegisterFails, RegisterUnread
  <2>2. op \in Import
    BY <2>1, Steps DEF Sound, TypeOK
  <2>3. CASE VerifyPasses \/ SwapIn
    BY <2>2, <2>3 DEF VerifyPasses, SwapIn, Continue, Import
  <2>4. CASE SetAside
    <3>1. op'.step = "swap"
      BY <2>2, <2>4 DEF SetAside, Continue, Import
    <3> QED BY <3>1
  <2>5. CASE op' = Idle
    BY <2>5 DEF Idle
  <2> QED BY <1>2, <2>3, <2>4, <2>5
       DEF ImportStep, VerifyFails, ExtractFails, SwapFails, Register, RegisterRefused,
           RegisterFails, RegisterUnread, Abandon, Answer
<1>3. ASSUME NEW a \in Artifacts, BeginRemove(a)
      PROVE  registry' = registry /\ op'.artifact = a
  BY <1>3 DEF BeginRemove, Continue, index
<1>4. CASE RemoveStep
  <2>1. op.step \in {"unlink", "rmtree", "forget"}
    BY <1>4 DEF RemoveStep, UnlinkCapsule, DeleteTree, Forget, RemoveFails
  <2>2. op \in Removal
    BY <2>1, Steps DEF Sound, TypeOK
  <2>3. op'.artifact = op.artifact /\ registry' = registry
    BY <1>4, <2>2 DEF RemoveStep, UnlinkCapsule, DeleteTree, Forget, RemoveFails, Continue, Answer,
                      Idle, Removal, index
  <2> QED BY <2>1, <2>3
<1>5. ASSUME NEW i \in Instances, NEW k \in Capsules, CreateInstance(i, k) PROVE FALSE
  BY <1>5 DEF CreateInstance, Idle
<1>6. CASE Crash
  BY <1>6 DEF Crash, Answer, Idle
<1>7. CASE UNCHANGED vars
  BY <1>7 DEF vars
<1> QED BY <1>1, <1>2, <1>3, <1>4, <1>5, <1>6, <1>7 DEF Next

\* An artifact that is being removed may be: it is removable, and no other
\* needs a capability of it.  (That no other needs it itself is in Progress.)
Removable(a) == registry[a].release \notin Fixed /\ CapabilityDependents(a) = {}
NoneLoses == op.step \in {"unlink", "rmtree", "forget"} => Removable(op.artifact)

LEMMA NoneLosesStep == Sound /\ NoneLoses /\ [Next]_vars => NoneLoses'
<1> SUFFICES ASSUME Sound, NoneLoses, [Next]_vars,
                    op'.step \in {"unlink", "rmtree", "forget"}
             PROVE  Removable(op.artifact)'
  BY DEF NoneLoses
<1>1. registry' = registry
  BY RemovalGoesOn
<1>2. Removable(op'.artifact)
  BY RemovalGoesOn DEF NoneLoses, BeginRemove, Removable
<1> QED BY <1>1, <1>2 DEF Removable, CapabilityDependents, Installed

LEMMA NoneLosesInvariant == Spec => [](Sound /\ NoneLoses)
<1>1. Init => NoneLoses
  BY DEF Init, NoneLoses, Idle
<1> QED BY <1>1, InitSound, SoundStep, NoneLosesStep, PTL DEF Spec

\* What a release has before a registration it has after it, unless the registered
\* release takes the place of one that had it and does not.
LEMMA ReplacementBreaks ==
  ASSUME Sound, op.step = "register", registry' = Registered,
         NEW t \in Releases,
         \A d \in Needs[t] : d \in Installed /\ registry[d].release \in Accepts[t],
         Requires[t] \subseteq UNION {Provides[registry[b].release] : b \in Installed}
  PROVE  \/ /\ \A d \in Needs[t] : d \in Installed' /\ registry'[d].release \in Accepts[t]
            /\ Requires[t] \subseteq UNION {Provides[registry'[b].release] : b \in Installed'}
         \/ \E d \in Artifacts : Replaced(d) /\ LetsDown(d, t)
<1> DEFINE r == extracted[op.capsule]
           a == ArtifactOf[r]
           entry == [release |-> r, capsule |-> op.capsule, verified |-> op.verified]
<1>1. r \in Releases /\ a \in Artifacts /\ op.capsule \in Capsules /\ op.verified \in BOOLEAN
  BY RegisteredRelease
<1>2. entry # Nothing
  BY <1>1, StoreAssumption DEF Entry
<1>3. registry' = [registry EXCEPT ![a] = entry]
  BY DEF Registered
<1> HIDE DEF r, entry
<1>4. /\ Installed' = Installed \union {a} /\ registry'[a] # Nothing
      /\ \A b \in Artifacts \ {a} : registry'[b] = registry[b]
  BY <1>1, <1>2, <1>3 DEF Installed, Sound, TypeOK
<1> SUFFICES ASSUME ~(Replaced(a) /\ LetsDown(a, t))
             PROVE  /\ \A d \in Needs[t] : d \in Installed'
                                           /\ registry'[d].release \in Accepts[t]
                    /\ Requires[t]
                         \subseteq UNION {Provides[registry'[b].release] : b \in Installed'}
  BY <1>1
<1> HIDE DEF a
<1>5. ASSUME NEW d \in Needs[t]
      PROVE  d \in Installed' /\ registry'[d].release \in Accepts[t]
  <2>1. d \in Installed /\ registry[d].release \in Accepts[t] /\ d \in Artifacts
    BY DEF Installed
  <2>2. CASE d = a
    BY <1>4, <2>1, <2>2 DEF Replaced, LetsDown, Installed
  <2>3. CASE d # a
    BY <1>4, <2>1, <2>3
  <2> QED BY <2>2, <2>3
<1>6. ASSUME NEW x \in Requires[t]
      PROVE  \E b \in Installed' : x \in Provides[registry'[b].release]
  <2>1. PICK b \in Installed : x \in Provides[registry[b].release]
    OBVIOUS
  <2>2. b \in Artifacts
    BY DEF Installed
  <2>3. CASE b = a
    BY <1>4, <2>1, <2>3 DEF Replaced, LetsDown, Installed
  <2>4. CASE b # a
    BY <1>4, <2>1, <2>2, <2>4
  <2> QED BY <2>3, <2>4
<1> QED BY <1>5, <1>6

\* A removal takes nothing away from the artifacts that stay.
LEMMA ForgetBreaksNone ==
  ASSUME Sound, NoneLoses, Forget, NEW b \in Installed', Supported(b)
  PROVE  b \in Installed /\ Supported(b)'
<1> DEFINE a == op.artifact
<1>1. /\ registry' = [registry EXCEPT ![a] = Nothing]
      /\ a \in Artifacts /\ registry[a] # Nothing
      /\ RequiredDependents(a) = {} /\ CapabilityDependents(a) = {}
  BY Steps DEF Forget, Sound, TypeOK, Progress, NoneLoses, Removable, Removal
<1> HIDE DEF a
<1>2. /\ Installed' = Installed \ {a}
      /\ \A c \in Installed' : registry'[c] = registry[c]
  BY <1>1 DEF Installed, Sound, TypeOK
<1>3. b \in Installed \ {a} /\ registry'[b] = registry[b]
  BY <1>2
<1>4. a \notin Needs[registry[b].release]
  BY <1>1, <1>3 DEF RequiredDependents
<1>5. ASSUME NEW x \in Requires[registry[b].release]
      PROVE  \E c \in Installed' : x \in Provides[registry'[c].release]
  <2>1. PICK c \in Installed : x \in Provides[registry[c].release]
    BY DEF Supported
  <2>2. CASE c # a
    BY <1>2, <2>1, <2>2
  <2>3. CASE \A d \in Installed \ {a} : x \notin Provides[registry[d].release]
    <3>1. c = a
      BY <2>1, <2>3
    <3>2. x \in Provides[registry[a].release]
                  \ UNION {Provides[registry[d].release] : d \in Installed \ {a}}
      BY <2>1, <2>3, <3>1
    <3>3. b \in CapabilityDependents(a)
      BY <1>3, <3>2 DEF CapabilityDependents
    <3> QED BY <1>1, <3>3
  <2> QED BY <1>2, <2>2, <2>3
<1> QED BY <1>2, <1>3, <1>4, <1>5 DEF Supported

LEMMA UpgradeStep == Sound /\ NoneLoses /\ [Next]_vars => BrokenByUpgrade
<1> SUFFICES ASSUME Sound, NoneLoses, [Next]_vars,
                    NEW b \in Installed', ~Supported(b)', b \in Installed => Supported(b)
             PROVE  \E d \in Artifacts : Replaced(d) /\ LetsDown(d, registry'[b].release)
  BY DEF BrokenByUpgrade, Broken
<1>1. CASE UNCHANGED registry
  BY <1>1 DEF Supported, Installed
<1>2. ASSUME op.step = "register", Satisfied(extracted[op.capsule]), registry' = Registered
      PROVE  \E d \in Artifacts : Replaced(d) /\ LetsDown(d, registry'[b].release)
  <2> DEFINE r == extracted[op.capsule]
             t == registry'[b].release
  <2>1. /\ r \in Releases /\ ArtifactOf[r] \in Artifacts
        /\ b = ArtifactOf[r] => t = r
        /\ b # ArtifactOf[r] => b \in Installed /\ registry'[b] = registry[b]
    BY <1>2, RegisteredRelease DEF Registered, Installed, Sound, TypeOK
  <2> HIDE DEF r
  <2>2. /\ t \in Releases
        /\ \A d \in Needs[t] : d \in Installed /\ registry[d].release \in Accepts[t]
        /\ Requires[t] \subseteq UNION {Provides[registry[c].release] : c \in Installed}
    <3>1. CASE b = ArtifactOf[r]
      BY <1>2, <2>1, <3>1 DEF Satisfied, r
    <3>2. CASE b # ArtifactOf[r]
      BY <2>1, <3>2 DEF Supported, Installed, Sound, TypeOK, Entry
    <3> QED BY <3>1, <3>2
  <2>3. ~(/\ \A d \in Needs[t] : d \in Installed' /\ registry'[d].release \in Accepts[t]
          /\ Requires[t] \subseteq UNION {Provides[registry'[c].release] : c \in Installed'})
    BY DEF Supported
  <2> HIDE DEF t
  <2>4. \E d \in Artifacts : Replaced(d) /\ LetsDown(d, t)
    BY <1>2, <2>2, <2>3, ReplacementBreaks
  <2> QED BY <2>4 DEF t
<1>3. CASE Forget
  <2>1. b \in Installed
    BY <1>3 DEF Forget, Installed, Sound, TypeOK
  <2> QED BY <1>3, <2>1, ForgetBreaksNone
<1> QED BY <1>1, <1>2, <1>3, RegistryWriters

\* An artifact loses an accepted dependency or a required capability only when
\* another release takes the place of one that gave it.  What registration checks
\* once, no removal, no failure, no crash and no reuse of a capsule id undoes; a
\* registration does, because nothing asks who requires what the old release had.
THEOREM UpgradeTheorem == Spec => OnlyUpgradesBreak
<1>1. Sound /\ NoneLoses /\ [Next]_vars => [BrokenByUpgrade]_vars
  BY UpgradeStep
<1> QED BY <1>1, NoneLosesInvariant, PTL DEF Spec, OnlyUpgradesBreak

-----------------------------------------------------------------------------
(* The inventory.                                                          *)

\* The refinement mapping, and what it makes of the inventory's operators.
Contents == [a \in Artifacts |->
               IF registry[a] = Nothing THEN Nothing ELSE registry[a].release]

LEMMA StockPresent ==
  ASSUME Sound
  PROVE  /\ Stock!Present = Installed
         /\ \A a \in Installed : Contents[a] = registry[a].release
         /\ \A present \in SUBSET Installed :
              Stock!Provided(present) = UNION {Provides[registry[a].release] : a \in present}
<1>1. ASSUME NEW a \in Installed PROVE Contents[a] = registry[a].release /\ Contents[a] # Nothing
  <2>1. registry[a] \in Entry /\ registry[a].release \in Releases
    BY DEF Installed, Sound, TypeOK, Entry
  <2> QED BY <2>1, StoreAssumption DEF Contents, Installed
<1>2. Stock!Present = Installed
  BY <1>1 DEF Stock!Present, Contents, Installed
<1>3. ASSUME NEW present \in SUBSET Installed
      PROVE  Stock!Provided(present) = UNION {Provides[registry[a].release] : a \in present}
  BY <1>1 DEF Stock!Provided, Contents, Installed
<1> QED BY <1>1, <1>2, <1>3

\* A registration installs the release: the dependencies it was validated
\* against are those of the registry it replaces.
LEMMA RegisterInstalls ==
  ASSUME Sound, op.step = "register", Satisfied(extracted[op.capsule]),
         registry' = Registered, generation' = generation + 1
  PROVE  Stock!InventoryNext
<1> DEFINE r == extracted[op.capsule]
           entry == [release |-> r, capsule |-> op.capsule, verified |-> op.verified]
<1>1. r \in Releases /\ ArtifactOf[r] \in Artifacts /\ op.capsule \in Capsules
      /\ op.verified \in BOOLEAN
  BY RegisteredRelease
<1>2. registry' = [registry EXCEPT ![ArtifactOf[r]] = entry]
  BY DEF Registered
<1>3. entry # Nothing /\ entry.release = r
  <2>1. entry \in Entry
    BY <1>1 DEF Entry
  <2> QED BY <2>1, StoreAssumption
<1>4. /\ \A a \in Needs[r] : a \in Installed /\ registry[a].release \in Accepts[r]
      /\ Requires[r] \subseteq UNION {Provides[registry[a].release] : a \in Installed}
  BY DEF Satisfied
<1> HIDE DEF r, entry
<1>5. Contents' = [Contents EXCEPT ![ArtifactOf[r]] = r]
  BY <1>1, <1>2, <1>3 DEF Contents, Sound, TypeOK
<1>6. Stock!Install(r)
  BY <1>4, <1>5, StockPresent DEF Stock!Install, Contents
<1> QED BY <1>1, <1>6 DEF Stock!InventoryNext, Stock!Install

\* The registry write of a removal removes the artifact: what was checked when
\* the removal began still holds, because the registry is still the same.
LEMMA ForgetRemoves ==
  ASSUME Sound, NoneLoses, Forget
  PROVE  Stock!InventoryNext
<1> DEFINE a == op.artifact
<1>1. /\ a \in Artifacts /\ a \in Installed
      /\ RequiredDependents(a) = {} /\ CapabilityDependents(a) = {}
      /\ registry[a].release \notin Fixed
  BY Steps DEF Forget, Sound, TypeOK, Progress, NoneLoses, Removable, Removal, Installed
<1>2. registry' = [registry EXCEPT ![a] = Nothing] /\ generation' = generation + 1
  BY DEF Forget
<1> HIDE DEF a
<1>3. Contents' = [Contents EXCEPT ![a] = Nothing]
  BY <1>1, <1>2 DEF Contents, Sound, TypeOK
<1>4. ASSUME NEW b \in Installed \ {a}
      PROVE  /\ a \notin Needs[registry[b].release]
             /\ Requires[registry[b].release] \intersect Provides[registry[a].release]
                  \subseteq UNION {Provides[registry[c].release] : c \in Installed \ {a}}
  <2>1. a \notin Needs[registry[b].release]
    BY <1>1 DEF RequiredDependents
  <2>2. Requires[registry[b].release]
          \intersect (Provides[registry[a].release]
                        \ UNION {Provides[registry[c].release] : c \in Installed \ {a}}) = {}
    BY <1>1 DEF CapabilityDependents
  <2> QED BY <2>1, <2>2
<1>5. Contents[a] = registry[a].release /\ Contents[a] # Nothing
  BY <1>1, StockPresent DEF Stock!Present, Contents
<1>6. Stock!Remove(a)
  BY <1>1, <1>2, <1>3, <1>4, <1>5, StockPresent DEF Stock!Remove, Contents
<1> QED BY <1>1, <1>6 DEF Stock!InventoryNext, Stock!Remove

\* The registry implements the inventory, whatever is imported under whatever
\* capsule id, fails or is cut off: a registration is an installation, the last
\* step of a removal a removal, and every other step leaves the inventory alone.
THEOREM InventoryTheorem == Spec => RegistryIsInventory
<1>1. Init => Stock!InventoryInit
  BY DEF Init, Stock!InventoryInit
<1>2. Sound /\ NoneLoses /\ [Next]_vars =>
        [Stock!InventoryNext]_<<Contents, generation>>
  <2> SUFFICES ASSUME Sound, NoneLoses, [Next]_vars,
                      ~(UNCHANGED registry /\ UNCHANGED generation)
               PROVE  Stock!InventoryNext
    BY DEF Contents
  <2> QED BY RegistryWriters, RegisterInstalls, ForgetRemoves
<1> QED BY <1>1, <1>2, NoneLosesInvariant, PTL
        DEF Spec, RegistryIsInventory, Stock!InventorySpec, Contents

-----------------------------------------------------------------------------
(* Entries and their files.                                                *)

\* A capsule id stands for one content.
IdPerRelease == \A o, p \in Offers : o[1] = p[1] => o[2] = p[2]

\* No file operation has failed and the Agent has not died.
Smooth == faults = 0 /\ crashes = 0

LEMMA OneRelease ==
  ASSUME IdPerRelease, NEW c, NEW r, NEW s, <<c, r>> \in Offers, <<c, s>> \in Offers
  PROVE  r = s
<1>1. <<c, r>>[1] = <<c, s>>[1] /\ <<c, r>>[2] = r /\ <<c, s>>[2] = s
  OBVIOUS
<1>2. <<c, r>>[2] = <<c, s>>[2]
  BY <1>1 DEF IdPerRelease
<1> QED BY <1>1, <1>2

\* No two entries share a capsule then.
LEMMA OneEntry ==
  ASSUME IdPerRelease, EntriesOffered, NEW a \in Installed, NEW b \in Installed,
         registry[a].capsule = registry[b].capsule
  PROVE  a = b
<1>1. /\ <<registry[a].capsule, registry[a].release>> \in Offers
      /\ <<registry[a].capsule, registry[b].release>> \in Offers
      /\ ArtifactOf[registry[a].release] = a /\ ArtifactOf[registry[b].release] = b
  BY DEF EntriesOffered
<1>2. registry[a].release = registry[b].release
  BY <1>1, OneRelease
<1> QED BY <1>1, <1>2

\* Failures and crashes are counted.
LEMMA SmoothSteps ==
  ASSUME Sound, [Next]_vars, Smooth'
  PROVE  /\ Smooth
         /\ ~ExtractFails /\ ~SwapFails /\ ~RegisterFails /\ ~RegisterUnread
         /\ ~RemoveFails /\ ~Crash
<1>1. faults \in Nat /\ crashes \in Nat
  BY BoundsAssumption DEF Sound, TypeOK
<1>2. /\ ExtractFails \/ SwapFails \/ RegisterFails \/ RegisterUnread \/ RemoveFails
           => faults' = faults + 1 /\ crashes' = crashes
      /\ Crash => crashes' = crashes + 1 /\ faults' = faults
  BY DEF ExtractFails, SwapFails, RegisterFails, RegisterUnread, RemoveFails, Crash, Fault
<1>3. \/ ExtractFails \/ SwapFails \/ RegisterFails \/ RegisterUnread \/ RemoveFails \/ Crash
      \/ faults' = faults /\ crashes' = crashes
  BY DEF Next, ImportStep, RemoveStep, BeginImport, VerifyPasses, VerifyFails, SetAside, SwapIn,
         Register, RegisterRefused, BeginRemove, UnlinkCapsule, DeleteTree, Forget,
         CreateInstance, budgets, vars
<1> QED BY <1>1, <1>2, <1>3 DEF Smooth

\* In the middle of a request: an import holds content under its capsule id, and
\* may only take it back when no entry names that id ...
Holding ==
  op.step \in {"verify", "extract", "swap", "register"} =>
    /\ stored[op.capsule] # Nothing
    /\ op.overwrite \/ \A a \in Installed : registry[a].capsule # op.capsule

\* ... and an entry lacks its capsule file or its extraction directory only while
\* the request is between taking the one away and putting the other in place.
HasFile(a) ==
  \/ stored[registry[a].capsule] = registry[a].release
  \/ op.step \in {"rmtree", "forget"} /\ a = op.artifact
HasTree(a) ==
  \/ extracted[registry[a].capsule] = registry[a].release
  \/ op.step = "swap" /\ op.capsule = registry[a].capsule
  \/ op.step = "forget" /\ a = op.artifact
Backed == Holding /\ \A a \in Installed : HasFile(a) /\ HasTree(a)

LEMMA ImportBacked ==
  ASSUME Sound, OnlyOffered, IdPerRelease, Backed,
         VerifyPasses \/ VerifyFails \/ SetAside \/ SwapIn \/ Register \/ RegisterRefused
  PROVE  Backed'
<1>0. op.step \in {"verify", "extract", "swap", "register"}
  BY DEF VerifyPasses, VerifyFails, SetAside, SwapIn, Register, RegisterRefused
<1>1. /\ op \in Import /\ op.capsule \in Capsules /\ stored[op.capsule] # Nothing
      /\ op.overwrite \/ \A a \in Installed : registry[a].capsule # op.capsule
  BY <1>0, Steps DEF Sound, TypeOK, Import, Backed, Holding
<1>2. \A a \in Installed : /\ a \in Artifacts /\ registry[a].capsule \in Capsules
                           /\ registry[a].release \in Releases
                           /\ <<registry[a].capsule, registry[a].release>> \in Offers
                           /\ stored[registry[a].capsule] = registry[a].release
                           /\ \/ extracted[registry[a].capsule] = registry[a].release
                              \/ op.step = "swap" /\ op.capsule = registry[a].capsule
  BY <1>0 DEF Installed, Sound, TypeOK, Entry, Backed, HasFile, HasTree, OnlyOffered, EntriesOffered
<1>3. CASE VerifyPasses
  <2>1. /\ op'.step = "extract" /\ op'.capsule = op.capsule /\ op'.overwrite = op.overwrite
        /\ UNCHANGED <<stored, extracted, registry>> /\ op.step = "verify"
    BY <1>1, <1>3 DEF VerifyPasses, Continue, Import, files, index
  <2> QED BY <1>1, <1>2, <2>1 DEF Backed, Holding, HasFile, HasTree, Installed
<1>4. CASE SetAside
  <2>1. op' = [op EXCEPT !.step = "swap", !.image = stored[op.capsule],
                         !.aside = extracted[op.capsule]]
    BY <1>4 DEF SetAside, Continue
  <2>2. /\ op'.step = "swap" /\ op'.capsule = op.capsule /\ op'.overwrite = op.overwrite
        /\ UNCHANGED <<stored, registry>> /\ op.step = "extract"
        /\ \A c \in Capsules \ {op.capsule} : extracted'[c] = extracted[c]
    BY <1>1, <1>4, <2>1 DEF SetAside, Import, index, Sound, TypeOK
  <2> QED BY <1>1, <1>2, <2>2 DEF Backed, Holding, HasFile, HasTree, Installed
<1>5. CASE SwapIn
  <2>1. /\ op'.step = "register" /\ op'.capsule = op.capsule /\ op'.overwrite = op.overwrite
        /\ UNCHANGED <<stored, registry>> /\ op.step = "swap"
        /\ extracted'[op.capsule] = op.image
        /\ \A c \in Capsules \ {op.capsule} : extracted'[c] = extracted[c]
    BY <1>1, <1>5 DEF SwapIn, Continue, Import, index, Sound, TypeOK
  <2>2. <<op.capsule, op.image>> \in Offers
    BY <2>1 DEF OnlyOffered, RequestOffered
  <2>3. \A a \in Installed : registry[a].capsule = op.capsule => registry[a].release = op.image
    BY <1>2, <2>2, OneRelease
  <2> QED BY <1>1, <1>2, <2>1, <2>3 DEF Backed, Holding, HasFile, HasTree, Installed
<1>6. CASE VerifyFails \/ RegisterRefused
  <2>1. /\ op'.step = "idle" /\ UNCHANGED <<extracted, registry>> /\ op.step # "swap"
        /\ stored' = IF op.overwrite THEN stored ELSE [stored EXCEPT ![op.capsule] = Nothing]
    BY <1>6 DEF VerifyFails, RegisterRefused, Abandon, Answer, Idle, index
  <2>2. \A a \in Installed : stored'[registry[a].capsule] = stored[registry[a].capsule]
    BY <1>1, <1>2, <2>1 DEF Sound, TypeOK
  <2> QED BY <1>2, <2>1, <2>2 DEF Backed, Holding, HasFile, HasTree, Installed
<1>7. CASE Register
  <2> DEFINE r == extracted[op.capsule]
             entry == [release |-> r, capsule |-> op.capsule, verified |-> op.verified]
  <2>1. /\ op'.step = "idle" /\ UNCHANGED <<stored, extracted>> /\ op.step = "register"
        /\ registry' = [registry EXCEPT ![ArtifactOf[r]] = entry]
    BY <1>7 DEF Register, Registered, Answer, Idle, files
  <2>2. r \in Releases /\ ArtifactOf[r] \in Artifacts
    BY <2>1, RegisteredRelease
  <2>3. stored[op.capsule] = r
    BY <1>1, <2>1, OneRelease
       DEF OnlyOffered, FilesOffered, RequestOffered, Sound, Progress
  <2>4. /\ registry'[ArtifactOf[r]].release = r /\ registry'[ArtifactOf[r]].capsule = op.capsule
        /\ \A a \in Artifacts \ {ArtifactOf[r]} : registry'[a] = registry[a]
    BY <2>1, <2>2 DEF Sound, TypeOK
  <2> HIDE DEF r, entry
  <2>5. ASSUME NEW a \in Installed' PROVE HasFile(a)' /\ HasTree(a)'
    <3>1. CASE a = ArtifactOf[r]
      BY <2>1, <2>3, <2>4, <3>1 DEF HasFile, HasTree, r
    <3>2. CASE a # ArtifactOf[r]
      BY <1>2, <2>1, <2>4, <3>2 DEF HasFile, HasTree, Installed
    <3> QED BY <3>1, <3>2
  <2> QED BY <2>1, <2>5 DEF Backed, Holding
<1> QED BY <1>3, <1>4, <1>5, <1>6, <1>7

LEMMA RemoveBacked ==
  ASSUME Sound, OnlyOffered, IdPerRelease, Backed, UnlinkCapsule \/ DeleteTree \/ Forget
  PROVE  Backed'
<1> DEFINE a == op.artifact
<1>0. op.step \in {"unlink", "rmtree", "forget"}
  BY DEF UnlinkCapsule, DeleteTree, Forget
<1>1. /\ op \in Removal /\ a \in Artifacts /\ a \in Installed
      /\ registry[a].capsule \in Capsules
  BY <1>0, Steps DEF Sound, TypeOK, Progress, Removal, Installed, Entry
<1>2. \A b \in Installed \ {a} : /\ registry[b].capsule \in Capsules \ {registry[a].capsule}
                                 /\ stored[registry[b].capsule] = registry[b].release
                                 /\ extracted[registry[b].capsule] = registry[b].release
  BY <1>0, <1>1, OneEntry
     DEF OnlyOffered, Installed, Sound, TypeOK, Entry, Backed, HasFile, HasTree
<1>3. HasFile(a) /\ HasTree(a)
  BY <1>1 DEF Backed
<1>4. CASE UnlinkCapsule
  <2>1. /\ op'.step = "rmtree" /\ op'.artifact = a /\ UNCHANGED <<extracted, registry>>
        /\ op.step = "unlink"
        /\ \A c \in Capsules \ {registry[a].capsule} : stored'[c] = stored[c]
    BY <1>1, <1>4 DEF UnlinkCapsule, Continue, Removal, index, Sound, TypeOK
  <2> HIDE DEF a
  <2>2. ASSUME NEW b \in Installed' PROVE HasFile(b)' /\ HasTree(b)'
    <3>1. CASE b = a
      BY <1>3, <2>1, <3>1 DEF HasFile, HasTree
    <3>2. CASE b # a
      BY <1>2, <2>1, <3>2 DEF HasFile, HasTree, Installed
    <3> QED BY <3>1, <3>2
  <2> QED BY <2>1, <2>2 DEF Backed, Holding
<1>5. CASE DeleteTree
  <2>1. /\ op'.step = "forget" /\ op'.artifact = a /\ UNCHANGED <<stored, registry>>
        /\ op.step = "rmtree"
        /\ \A c \in Capsules \ {registry[a].capsule} : extracted'[c] = extracted[c]
    BY <1>1, <1>5 DEF DeleteTree, Continue, Removal, index, Sound, TypeOK
  <2> HIDE DEF a
  <2>2. ASSUME NEW b \in Installed' PROVE HasFile(b)' /\ HasTree(b)'
    <3>1. CASE b = a
      BY <2>1, <3>1 DEF HasFile, HasTree
    <3>2. CASE b # a
      BY <1>2, <2>1, <3>2 DEF HasFile, HasTree, Installed
    <3> QED BY <3>1, <3>2
  <2> QED BY <2>1, <2>2 DEF Backed, Holding
<1>6. CASE Forget
  <2>1. /\ op'.step = "idle" /\ UNCHANGED <<stored, extracted>>
        /\ Installed' = Installed \ {a}
        /\ \A b \in Installed \ {a} : registry'[b] = registry[b]
    BY <1>1, <1>6 DEF Forget, Answer, Idle, files, Installed, Sound, TypeOK
  <2> QED BY <1>2, <2>1 DEF Backed, Holding, HasFile, HasTree
<1> QED BY <1>4, <1>5, <1>6

\* Backed as long as capsule ids stand for one content each and nothing failed.
BackedSoFar == IdPerRelease /\ Smooth => Backed

LEMMA BackedStep == Sound /\ OnlyOffered /\ BackedSoFar /\ [Next]_vars => BackedSoFar'
<1> SUFFICES ASSUME Sound, OnlyOffered, BackedSoFar, [Next]_vars, IdPerRelease, Smooth'
             PROVE  Backed'
  BY DEF BackedSoFar
<1>0. /\ Backed
      /\ ~ExtractFails /\ ~SwapFails /\ ~RegisterFails /\ ~RegisterUnread
      /\ ~RemoveFails /\ ~Crash
  BY SmoothSteps DEF BackedSoFar
<1>1. ASSUME NEW offer \in Offers, NEW overwrite \in Overwrites, NEW check \in Checks,
             BeginImport(offer[1], offer[2], overwrite, check)
      PROVE  Backed'
  <2>1. /\ offer[1] \in Capsules /\ offer[2] \in Releases /\ offer[2] # Nothing
        /\ <<offer[1], offer[2]>> \in Offers
    BY OfferPair, StoreAssumption
  <2>2. /\ op'.step \in {"verify", "extract"} /\ op'.capsule = offer[1]
        /\ op'.overwrite = overwrite /\ op = Idle
        /\ UNCHANGED <<extracted, registry>>
        /\ stored' = [stored EXCEPT ![offer[1]] = offer[2]]
        /\ overwrite \/ stored[offer[1]] = Nothing
    BY <1>1 DEF BeginImport, Continue, index
  <2>3. \A a \in Installed : /\ registry[a].capsule \in Capsules
                             /\ registry[a].release # Nothing
                             /\ <<registry[a].capsule, registry[a].release>> \in Offers
                             /\ stored[registry[a].capsule] = registry[a].release
                             /\ extracted[registry[a].capsule] = registry[a].release
    BY <1>0, <2>2, StoreAssumption
       DEF Idle, Backed, HasFile, HasTree, OnlyOffered, EntriesOffered, Installed, Sound, TypeOK, Entry
  <2>4. \A a \in Installed : registry[a].capsule = offer[1] => registry[a].release = offer[2]
    BY <2>1, <2>3, OneRelease
  <2>5. ASSUME NEW a \in Installed' PROVE HasFile(a)' /\ HasTree(a)'
    BY <2>2, <2>3, <2>4 DEF HasFile, HasTree, Installed, Sound, TypeOK
  <2>6. Holding'
    <3>1. stored'[op'.capsule] # Nothing
      BY <2>1, <2>2 DEF Sound, TypeOK
    <3>2. CASE overwrite
      <4>1. op'.overwrite
        BY <2>2, <3>2
      <4> QED BY <3>1, <4>1 DEF Holding
    <3>3. CASE stored[offer[1]] = Nothing
      <4>1. \A a \in Installed' : registry'[a].capsule # op'.capsule
        BY <2>2, <2>3, <3>3 DEF Installed
      <4> QED BY <3>1, <4>1 DEF Holding
    <3> QED BY <2>2, <3>2, <3>3
  <2> QED BY <2>5, <2>6 DEF Backed
<1>2. CASE ImportStep
  BY <1>0, <1>2, ImportBacked DEF ImportStep
<1>3. ASSUME NEW a \in Artifacts, BeginRemove(a) PROVE Backed'
  <2>1. /\ op'.step = "unlink" /\ op = Idle /\ UNCHANGED <<stored, extracted, registry>>
    BY <1>3 DEF BeginRemove, Continue, files, index
  <2> QED BY <1>0, <2>1 DEF Idle, Backed, Holding, HasFile, HasTree, Installed
<1>4. CASE RemoveStep
  BY <1>0, <1>4, RemoveBacked DEF RemoveStep
<1>5. ASSUME NEW i \in Instances, NEW k \in Capsules, CreateInstance(i, k) PROVE Backed'
  BY <1>0, <1>5 DEF CreateInstance, files, index, Backed, Holding, HasFile, HasTree, Installed
<1>6. CASE UNCHANGED vars
  BY <1>0, <1>6 DEF vars, Backed, Holding, HasFile, HasTree, Installed
<1> QED BY <1>0, <1>1, <1>2, <1>3, <1>4, <1>5, <1>6 DEF Next

LEMMA BackedInvariant == Spec => [](Sound /\ OnlyOffered /\ BackedSoFar)
<1>1. Init => BackedSoFar
  BY DEF Init, BackedSoFar, Backed, Holding, Installed, Idle
<1> QED BY <1>1, BackedStep, OfferedInvariant, PTL DEF Spec

\* With a capsule id per release, and until a file operation fails or the Agent
\* dies, every entry has its capsule file and its extraction directory between
\* requests, and they hold the release it was registered for: refused imports,
\* repeated ones, upgrades and removals leave no entry without its files.
THEOREM EntryTheorem ==
  Spec => [](IdPerRelease /\ faults = 0 /\ crashes = 0 => EntryMatchesFiles)
<1>1. BackedSoFar => (IdPerRelease /\ faults = 0 /\ crashes = 0 => EntryMatchesFiles)
  BY DEF BackedSoFar, Smooth, Backed, HasFile, HasTree, EntryMatchesFiles, Idle
<1> QED BY <1>1, BackedInvariant, PTL
-----------------------------------------------------------------------------
(* What discovery clients see.                                             *)

\* The release whose manifest the registry says artifact a serves.
Announced(a) ==
  IF registry[a] # Nothing /\ registry[a].verified /\ registry[a].release \in Contributes
  THEN registry[a].release
  ELSE Nothing

\* Clients have seen the registry as it is.
SeenSoFar ==
  IdPerRelease /\ Smooth =>
    /\ seen.generation = generation
    /\ seen.served = [a \in Artifacts |-> Announced(a)]

\* The requests that are answered, and the registry writes among them.
LEMMA Answers ==
  ASSUME [Next]_vars
  PROVE  \/ UNCHANGED <<seen, index>>
         \/ Answer /\ UNCHANGED index
         \/ Answer /\ generation' = generation + 1
BY DEF Next, ImportStep, RemoveStep, BeginImport, VerifyPasses, VerifyFails, SetAside, ExtractFails,
       SwapIn, SwapFails, Register, RegisterRefused, RegisterFails, RegisterUnread, BeginRemove,
       UnlinkCapsule, DeleteTree, Forget, RemoveFails, CreateInstance, Crash, Abandon, Continue,
       index, vars

LEMMA SeenStep ==
  ASSUME Sound, Sound', OnlyOffered, BackedSoFar, SeenSoFar, [Next]_vars
  PROVE  /\ SeenSoFar'
         /\ IdPerRelease /\ Smooth' => FollowGeneration
<1> SUFFICES ASSUME IdPerRelease, Smooth'
             PROVE  /\ seen'.generation = generation'
                    /\ seen'.served = [a \in Artifacts |-> Announced(a)']
                    /\ FollowGeneration
  BY DEF SeenSoFar
<1>1. /\ seen.generation = generation
      /\ seen.served = [a \in Artifacts |-> Announced(a)]
  BY SmoothSteps DEF SeenSoFar
<1>2. CASE UNCHANGED <<seen, index>>
  BY <1>1, <1>2 DEF FollowGeneration, Announced, index
<1>3. CASE Answer
  <2>1. op' = Idle /\ seen' = View'
    BY <1>3 DEF Answer
  <2>2. EntryMatchesFiles'
    BY <2>1, BackedStep DEF BackedSoFar, Backed, HasFile, HasTree, EntryMatchesFiles, Idle
  <2>3. View'.served = [a \in Artifacts |-> Announced(a)']
    <3>1. ASSUME NEW a \in Artifacts PROVE Served(a)' = Announced(a)'
      BY <2>1, <2>2 DEF EntryMatchesFiles, Served, Announced, Installed
    <3> QED BY <3>1 DEF View
  <2>4. seen'.generation = generation' /\ seen'.served = [a \in Artifacts |-> Announced(a)']
    BY <2>1, <2>3 DEF View
  <2>5. CASE UNCHANGED index
    <3>1. \A a \in Artifacts : Announced(a)' = Announced(a)
      BY <2>5 DEF Announced, index
    <3> QED BY <1>1, <2>4, <3>1 DEF FollowGeneration
  <2>6. CASE generation' = generation + 1
    BY <1>1, <2>4, <2>6 DEF FollowGeneration, Sound, TypeOK
  <2> QED BY <1>2, <2>5, <2>6, Answers
<1> QED BY <1>2, <1>3, Answers

\* With a capsule id per release, and until a file operation fails or the Agent
\* dies, what discovery clients are served changes only with the generation.
THEOREM ViewTheorem ==
  Spec => [][IdPerRelease /\ faults' = 0 /\ crashes' = 0 => FollowGeneration]_vars
<1>1. Init => SeenSoFar
  BY DEF Init, SeenSoFar, Announced
<1>2. Sound /\ Sound' /\ OnlyOffered /\ BackedSoFar /\ SeenSoFar /\ [Next]_vars => SeenSoFar'
  BY SeenStep
<1>3. Sound /\ Sound' /\ OnlyOffered /\ BackedSoFar /\ SeenSoFar /\ [Next]_vars
        => [IdPerRelease /\ faults' = 0 /\ crashes' = 0 => FollowGeneration]_vars
  BY SeenStep DEF Smooth
<1> QED BY <1>1, <1>2, <1>3, BackedInvariant, PTL DEF Spec

\* Where capsule ids are never used again and nothing fails, a composition host
\* may refresh by the generation alone.
THEOREM FollowTheorem ==
  ASSUME IdPerRelease, Faults = 0, Crashes = 0
  PROVE  Spec => ViewFollowsGeneration
<1>1. TypeOK' /\ [IdPerRelease /\ faults' = 0 /\ crashes' = 0 => FollowGeneration]_vars
        => [FollowGeneration]_vars
  BY DEF TypeOK
<1> QED BY <1>1, ViewTheorem, Typing, PTL DEF ViewFollowsGeneration
=============================================================================
