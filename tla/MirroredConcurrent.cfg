SPECIFICATION Spec
CONSTANTS
  w1 = w1
  w2 = w2
  k1 = k1
  k2 = k2
  a = a
  b = b
  Absent = Absent
  NoWriter = NoWriter
  Writers = {w1, w2}
  Keys = {k1}
  Values = {a}
  Batches <- OnePayloadBatches
  Legacy <- NoLegacy
  Topologies = {"Mirror"}
  Budget = 1
  MaxCommits = 3
SYMMETRY WriterSymmetry
INVARIANTS PlanCurrent LogIntact CountsExact CheckpointsFaithful UnconfirmedShippable
