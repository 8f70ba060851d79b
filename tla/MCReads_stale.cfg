\* One call of one process, two edits of the vault.
SPECIFICATION Spec
CONSTANTS
  sam = sam  mia = mia  ada = ada  north = north  south = south
  None = None  Nobody = Nobody  Absent = Absent
  Path <- MCPath
  Card <- MCCard
  CardsAt <- MCCardsAt
  Vaults <- MCVaults
  Boundaries <- MCBoundaries
  Constraint <- MCConstraint
  BoundaryOf <- MCBoundaryOf
  Actors <- OneActor
  Grants = {}
  Queries = {"ac"}
  SearchLimit = 1
  MaxEvidence = 2
  MaxCalls = 1
  MaxChanges = 2
INVARIANT
  NeverAStaleHit
CHECK_DEADLOCK FALSE
