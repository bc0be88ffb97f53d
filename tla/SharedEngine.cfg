SPECIFICATION Spec
CONSTANTS
  w1 = w1
  w2 = w2
  k1 = k1
  k2 = k2
  a = a
  b = b
  Absent = Absent
  NoWriter = NoWriter
  Writers = {w1, w2}
  Keys = {k1}
  Values = {a, b}
  Batches <- OneKeyBatches
  Legacy <- NoLegacy
  Topologies = {"LocalCheckpoint"}
  Budget = 0
  MaxCommits = 2
INVARIANT Recoverable
