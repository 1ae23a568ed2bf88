SPECIFICATION Spec
CONSTANTS
  guide = guide
  contributing = contributing
  dotgithub = dotgithub
  long = long
  short = short
  blank = blank
  None = None
  Runs = {r1, r2}
  Paths <- TwoPlaces
  Order <- TwoOrder
  Listed = {}
  Alternatives <- TwoPlaces
  Versions <- MCVersions
  Content <- MCContent
  MaxChars = 4
  MaxEdits = 1
  MaxFaults = 1
PROPERTIES SkippedMeansIndexed
CHECK_DEADLOCK FALSE
