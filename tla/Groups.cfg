SPECIFICATION Spec
CONSTANTS
  k1 = k1
  k2 = k2
  a = a
  b = b
  Absent = Absent
  Keys <- KeysWithTwoIdentifiers
  Values = {a, b}
  MaxIdentifier = 2
  Batches <- KeyedBatches
  Topology = "Mirror"
  Budget = 1
  MaxCommits = 3
  ResumesFirst = FALSE
INVARIANTS TypeOK SessionReadsLikeDirectWrites PreImagesTrue IdentifiersMintedOnce UnconfirmedQueued
PROPERTIES ImplementsGroups
