SPECIFICATION Spec
CONSTANTS
  i1 = i1  i2 = i2  c1 = c1  c2 = c2  app = app  web = web
  Nothing = Nothing
  Instances = {i1}
  Capsules = {c1, c2}
  Services = {app, web}
  App = app
  Profiles = {"intranet_private", "public_temporary"}
  Private = "intranet_private"
  Public = {"public_temporary"}
  Tags = {"v14", "v15"}
  TagOf <- SharedTag
  Trusted = {c1, c2}
  Released = {c1}
  Pinned = {c1}
  Named = {Nothing, c1, c2}
  Recreates = {TRUE}
  EnvWrites = {TRUE}
  Faults = 1
  Crashes = 1
INVARIANTS TypeOK ContainersAreSound
PROPERTIES StartedOnEvidence StacksAreDeployed
