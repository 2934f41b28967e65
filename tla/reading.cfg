\* Three deliveries within three ticks, two attempts, pages of one.
SPECIFICATION Spec
CONSTANTS
  None = None
  Deliveries = {d1, d2, d3}
  Limit = 1
  MaxTime = 2
  MaxAttempts = 2
SYMMETRY Perms
INVARIANTS TypeOK NoneMissed RepeatsExplained DetailNeverBehind
