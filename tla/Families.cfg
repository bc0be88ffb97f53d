SPECIFICATION FairSpec
CONSTANTS
  Notes = Notes
  Tickets = Tickets
  Note = Note
  Ticket = Ticket
  Absent = Absent
  Tables <- MCTables
  IdentifiedTables <- MCIdentifiedTables
  Families <- MCFamilies
  Schemas <- MCSchemas
  Components <- MCComponents
  Keys = {k1}
  Data = {d1, d2}
  MaxIdentifier = 2
  Topology = "Mirror"
  Budget = 1
  Handed = {}
  MaxCommits = 3
  MaxFaults = 1
  MaxInstalls = 1
  MaxLosses = 1
INVARIANTS TypeOK CatalogNamesShape RebuildReproduces GrantedMatchesDisk EntriesNameShapes HistoryFolds CountersAhead
PROPERTIES ImplementsRecords UpgradeCompletes
