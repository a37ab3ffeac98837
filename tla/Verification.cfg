CONSTANTS
  File = {f1, f2}
  b1 = b1  b2 = b2
  Body = {b1, b2}
  k1 = k1  k2 = k2
  Key = {k1, k2}
  lower = lower  upper = upper
  Spelling = {lower, upper}
  Lower <- MCLower
  Name = {alice, bob}
  Entry <- MCEntry
  Malformed = malformed
  Unknown = unknown
  Worker = {w1, w2}
  None = None
  MaxChanges = 1
SPECIFICATION Spec
SYMMETRY Symmetry
INVARIANT VerdictsCurrent
PROPERTIES JudgedInTheCall IndexIsMap
CHECK_DEADLOCK FALSE
