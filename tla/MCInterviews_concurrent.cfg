SPECIFICATION Spec
CONSTANTS
  Agents = {a1}
  Interviews = {i1, i2, i3}
  Sessions = {s1, s2}
  MaxRequests = 3
SYMMETRY Symmetry
INVARIANTS
  FinishedIsDated
  ActiveBound
  NeverHandedTwice
  IndInv
PROPERTY QueuedOnce
