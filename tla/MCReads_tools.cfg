\* Two calls of one process, one edit of the vault or move of a grant.
SPECIFICATION Spec
CONSTANTS
  sam = sam  mia = mia  ada = ada  north = north  south = south
  None = None  Nobody = Nobody  Absent = Absent
  Path <- MCPath
  Card <- MCCard
  CardsAt <- MCCardsAt
  Vaults <- MCVaults
  Boundaries <- MCBoundaries
  Constraint <- MCConstraint
  BoundaryOf <- MCBoundaryOf
  Actors <- MCActors
  Grants <- MCGrants
  Queries = {"ac"}
  SearchLimit = 1
  MaxEvidence = 2
  MaxCalls = 2
  MaxChanges = 1
INVARIANTS
  CachedCardIsCurrent
  ShownWasDecided
  LabelIsHonest
  GraphStandsUp
  DigestAgreesWhenQuiet
  ShownIsFromThisCall
PROPERTIES
  GrantsOnlyWiden
  EveryCallEnds
CHECK_DEADLOCK FALSE
