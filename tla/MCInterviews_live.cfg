SPECIFICATION FairSpec
CONSTANTS
  Agents = {a1, a2}
  Interviews = {i1, i2}
  Sessions = {s1, s2}
  MaxRequests = 2
PROPERTY QueueDrains
