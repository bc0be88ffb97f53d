SPECIFICATION FairSpec
CONSTANTS
  Local = Local
  Mirrored = Mirrored
  Policies <- MCPolicies
  Mirrors <- MCMirrors
  NoPolicy = NoPolicy
  Budget = 1
  Owner = Local
  MaxCommits = 4
  MaxFaults = 2
INVARIANTS ServesExactSlots RejectedStoreIntact
PROPERTIES BoundForGood OwnerServes
