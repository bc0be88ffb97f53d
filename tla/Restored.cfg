SPECIFICATION Spec
CONSTANTS
  Notes = Notes
  Tickets = Tickets
  Note = Note
  Ticket = Ticket
  Absent = Absent
  Tables <- MCTables
  IdentifiedTables <- MCIdentifiedTables
  Families <- MCFamilies
  Schemas <- MCSchemas
  Components <- MCComponents
  Keys = {k1}
  Data = {d1, d2}
  MaxIdentifier = 2
  Topology = "Mirror"
  Budget = 1
  Handed = {"empty", "minting"}
  MaxCommits = 3
  MaxFaults = 2
  MaxInstalls = 0
  MaxLosses = 2
INVARIANT RestoredInPart
