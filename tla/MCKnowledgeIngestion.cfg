SPECIFICATION Spec
CONSTANTS
  guide = guide
  contributing = contributing
  dotgithub = dotgithub
  long = long
  short = short
  blank = blank
  None = None
  Runs = {r1, r2, r3}
  Paths <- OneFile
  Order <- OneOrder
  Listed <- OneFile
  Alternatives = {}
  Versions <- MCVersions
  Content <- MCContent
  MaxChars = 4
  MaxEdits = 1
  MaxFaults = 1
SYMMETRY RunSymmetry
INVARIANTS ChecksumTrusted OneVersionFound
PROPERTIES CollisionsExplained PassedMeansIndexed
CHECK_DEADLOCK FALSE
