SPECIFICATION FairSpec
CONSTANTS
  k1 = k1
  k2 = k2
  a = a
  b = b
  Absent = Absent
  Keys = {k1, k2}
  Values = {a, b}
  MaxIdentifier = 0
  Batches <- PairedBatches
  Topology = "LocalCheckpoint"
  Budget = 1
  MaxCommits = 4
  ResumesFirst = TRUE
INVARIANTS IntentTracksPlan CountersExact
PROPERTIES RecoveryServes IntentGoesThroughPhases
