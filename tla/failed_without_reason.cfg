\* Two workers retry the same failed delivery.
SPECIFICATION Spec
CONSTANTS
  None = None
  auth = auth
  trace = trace
  k1 = k1
  emptyKey = emptyKey
  p1 = p1
  p2 = p2
  pSurrogate = pSurrogate
  Headers = {auth, trace}
  Sensitive = {auth}
  Excluded = {}
  Keys = {k1, emptyKey}
  WellFormedKeys = {k1}
  EmptyKey = emptyKey
  Payloads = {p1, p2, pSurrogate}
  Unencodable = {pSurrogate}
  Calls = {c1, c2, c3}
  Workers = {w1, w2}
  MaxEntries = 1
  CreateInputs <- OneCreate
  RetryInputs <- NoResupply
  MaxCrashes = 0
  MaxStoreErrors = 0
  MaxFaults = 1
INVARIANT FailedSaysWhy
