SPECIFICATION Spec
CONSTANTS
  plan1 = plan1
  plan2 = plan2
  red = red
  blue = blue
  green = green
  Plans = {plan1}
  ProjectOf <- Apart
  Paths <- MCPaths
  Parent <- MCParent
  Root = "."
  Contents = {red, blue}
  FirstTree <- Nested
  MaxOps = 2
  MaxUser = 2
  MaxCrashes = 1
  Dir = Dir
  Nothing = Nothing
  None = None
INVARIANTS
  FilesSafe
PROPERTIES
  UndoRestores
  AllOrNothing
  UndoRefusalExplained
CHECK_DEADLOCK FALSE
