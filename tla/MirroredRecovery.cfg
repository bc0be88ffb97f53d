SPECIFICATION FairSpec
CONSTANTS
  k1 = k1
  k2 = k2
  a = a
  b = b
  Absent = Absent
  Keys = {k1}
  Values = {a, b}
  MaxIdentifier = 0
  Batches <- KeyedBatches
  Topology = "Mirror"
  Budget = 1
  MaxCommits = 2
  ResumesFirst = TRUE
PROPERTIES RecoveryServes
