SPECIFICATION Spec
CONSTANTS
  plan1 = plan1
  plan2 = plan2
  red = red
  blue = blue
  green = green
  Plans = {plan1, plan2}
  ProjectOf <- Apart
  Paths = {"a", "b", "d"}
  Parent <- MCParent
  Root = "."
  Contents = {red, blue}
  FirstTree <- TwoFiles
  MaxOps = 1
  MaxUser = 0
  MaxCrashes = 0
  Dir = Dir
  Nothing = Nothing
  None = None
INVARIANTS
  NoCollision
CHECK_DEADLOCK FALSE
