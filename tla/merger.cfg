CONSTANTS
  x = x
  y = y
  Items = {x, y}
  MaxResults = 3
  Keys <- MCKeys
  Arrays = {"list"}
  Others = {"name"}
  Inputs <- MCInputs
SPECIFICATION Spec
INVARIANTS MergedAsDefined ScoredAsMerged
