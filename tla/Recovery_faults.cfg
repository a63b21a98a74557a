SPECIFICATION Spec
CONSTANTS
  c1 = c1
  c2 = c2
  Plans <- ThePlans
  Capsules = {c1, c2}
  None = None
  Runs = 3
  Faults = 1
  Crashes = 1
INVARIANTS TypeOK AnswersAreTrue
PROPERTIES CopyFirst PointerKept DryRunIsDry
CHECK_DEADLOCK FALSE
