SPECIFICATION Spec
CONSTANTS
  Agents = {a1}
  Interviews = {i1}
  MaxFaults = 0
PROPERTY OnlyInProgressCompletes
CHECK_DEADLOCK FALSE
