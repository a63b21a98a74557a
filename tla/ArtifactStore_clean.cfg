SPECIFICATION Spec
CONSTANTS
  Capsules = {c1, c2, c3, c4}
  Artifacts = {"ui", "orgo"}
  Instances = {i1}
  Nothing = Nothing
  ui1 = ui1
  ui2 = ui2
  orgo1 = orgo1
  orgo2 = orgo2
  forged = forged
  c1 = c1
  c2 = c2
  c3 = c3
  c4 = c4
  Releases <- MCReleases
  ArtifactOf <- MCArtifactOf
  Genuine <- MCGenuine
  Needs <- MCNeeds
  Accepts <- MCAccepts
  Provides <- MCProvides
  Requires <- MCRequires
  Contributes <- MCContributes
  Fixed = {}
  Offers <- OwnIds
  Checks = {TRUE, FALSE}
  Overwrites = {TRUE, FALSE}
  MaxGeneration = 6
  Faults = 0
  Crashes = 0
INVARIANTS TypeOK EntryMatchesFiles
PROPERTIES ViewFollowsGeneration
CHECK_DEADLOCK FALSE
