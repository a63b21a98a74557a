SPECIFICATION Spec
CONSTANTS
  i1 = i1  i2 = i2  c1 = c1  c2 = c2  app = app  web = web
  Nothing = Nothing
  Instances = {i1, i2}
  Capsules = {c1, c2}
  Services = {app, web}
  App = app
  Profiles = {"intranet_private"}
  Private = "intranet_private"
  Public = {}
  Tags = {"v14"}
  TagOf <- SharedTag
  Trusted = {c1, c2}
  Released = {}
  Pinned = {}
  Named = {Nothing}
  Recreates = {TRUE, FALSE}
  EnvWrites = {TRUE}
  Faults = 1
  Crashes = 0
INVARIANTS StackRunsCapsule AnswersAreTrue
SYMMETRY Alike
