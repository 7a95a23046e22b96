SPECIFICATION Spec
CONSTANTS
  Agents = {a1}
  Interviews = {i1, i2}
  Calls = {c1, c2}
  MaxFailures = 1
INVARIANTS
  IndInv
  OfferedIsPlayable
PROPERTIES
  PollingEnds
  BannerMovesOn
CHECK_DEADLOCK FALSE
