SPECIFICATION Spec
CONSTANTS
  Agents = {a1, a2}
  Interviews = {i1, i2, i3}
  Sessions = {s1}
  MaxRequests = 3
INVARIANTS
  OneActivePerAgent
PROPERTIES
  ImplementsAtomic
