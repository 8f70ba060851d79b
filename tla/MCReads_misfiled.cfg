\* One call of one process, no edit of the vault.
SPECIFICATION Spec
CONSTANTS
  sam = sam  mia = mia  ada = ada  north = north  south = south
  None = None  Nobody = Nobody  Absent = Absent
  Path <- MCPath
  Card <- MCCard
  CardsAt <- MCCardsAt
  Vaults <- MCVaults
  Boundaries <- MCBoundaries
  Constraint <- MCConstraint
  BoundaryOf <- MCBoundaryOf
  Actors <- OneActor
  Grants = {}
  Queries = {"ac"}
  SearchLimit = 1
  MaxEvidence = 2
  MaxCalls = 1
  MaxChanges = 0
INVARIANT
  MisfiledIsNeverShown
CHECK_DEADLOCK FALSE
