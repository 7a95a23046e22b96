SPECIFICATION Spec
CONSTANTS
  Agents = {a1}
  Interviews = {i1, i2}
  Sessions = {s1, s2}
  MaxRequests = 2
INVARIANT OneActivePerAgent
