SPECIFICATION FairSpec
CONSTANTS
  w1 = w1
  w2 = w2
  k1 = k1
  k2 = k2
  a = a
  b = b
  Absent = Absent
  NoWriter = NoWriter
  Writers = {w1}
  Keys = {k1, k2}
  Values = {a, b}
  Batches <- TwoKeyBatches
  Legacy <- TwoLegacyCommits
  Topologies = {"LocalCheckpoint", "Mirror"}
  Budget = 1
  MaxCommits = 5
INVARIANTS TypeOK RowsAreView Recoverable CursorOnChain DurableWritesFailOutside
PROPERTIES HistoryReturnsToBudget ImplementsStore
