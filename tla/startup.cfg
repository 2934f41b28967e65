\* Three workers start together, three starts, one fault.
SPECIFICATION FairSpec
CONSTANTS
  None = None
  Workers = {w1, w2, w3}
  MaxStarts = 3
  MaxFaults = 1
INVARIANTS TypeOK ServingIsReady LedgerHonest ResidueExplained
PROPERTY RaceWon
