\* Three calls over two lives of the process, three choices of settings.
SPECIFICATION Spec
CONSTANTS
  None = None
  v1 = v1
  v2 = v2
  Calls = {c1, c2, c3}
  Names <- MCNames
  Values = {v1, v2}
  DefaultSensitive = {"authorization"}
  Generated = {"x-callback-id"}
  Creates <- MCCreates
  Resupplies <- MCResupplies
  Settings <- MCSettings
  MaxEntries = 1
  MaxRestarts = 1
SYMMETRY Perms

INVARIANTS TypeOK ReadableOnlyIfDropped RepeatsDecided ReplayIsSame
PROPERTIES WireFaithful RefusedOnlyIfLost
