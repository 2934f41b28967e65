\* Two workers on one database, and a crash.
SPECIFICATION Spec
CONSTANTS
  None = None
  auth = auth
  trace = trace
  k1 = k1
  emptyKey = emptyKey
  p1 = p1
  p2 = p2
  pSurrogate = pSurrogate
  Headers = {auth, trace}
  Sensitive = {auth}
  Excluded = {}
  Keys = {k1, emptyKey}
  WellFormedKeys = {k1}
  EmptyKey = emptyKey
  Payloads = {p1, p2, pSurrogate}
  Unencodable = {pSurrogate}
  Calls = {c1, c2, c3}
  Workers = {w1, w2}
  MaxEntries = 1
  CreateInputs <- Racing
  RetryInputs <- FewRetries
  MaxCrashes = 1
  MaxStoreErrors = 0
  MaxFaults = 1
SYMMETRY Symmetric
INVARIANTS
  OneSendPerKey ReplaysAgree CredentialsTraceable PendingExplained
  StampedIffDelivered
PROPERTY EvidenceIsKept
