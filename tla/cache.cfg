\* Three deliveries, room for two, two headers, five puts.
SPECIFICATION Spec
CONSTANTS
  None = None
  Calls = {c1, c2, c3}
  Headers = {"authorization", "cookie"}
  Sensitive = {"authorization", "cookie"}
  Excluded = {}
  MaxEntries = 2
  MaxPuts = 5
INVARIANTS TypeOK RetainsRecent HandsOutLatest
