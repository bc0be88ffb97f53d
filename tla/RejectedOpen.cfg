SPECIFICATION Spec
CONSTANTS
  Local = Local
  Mirrored = Mirrored
  Policies <- MCPolicies
  Mirrors <- MCMirrors
  NoPolicy = NoPolicy
  Budget = 1
  Owner = Local
  MaxCommits = 4
  MaxFaults = 0
INVARIANT RejectionWritesNothing
