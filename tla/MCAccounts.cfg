SPECIFICATION AccountsSpec
CONSTANTS
  Agents = {a1}
  Handlers = {h1, h2}
  Timestamps = {1}
  Window = 1
  Spellings = {padded, bare}
  Usual = padded
  Delay = 1
  Ttl = 2
  MaxTime = 3
  Calls = {c1, c2}
  Life = 2
  MaxTokens = 2
INVARIANTS
  AccountsInv
  PassedOnce
  IndInv
  ToldWasStored
  TokenWorks
CHECK_DEADLOCK FALSE
SYMMETRY Symmetry
CONSTRAINT Bounded
