\* An admin and a sales rep on one access request; the second worker holds
\* another approval key; one crash or one edit of the vault; a day passes.
SPECIFICATION GrantsSpec
CONSTANTS
  s1 = s1  s2 = s2  w1 = w1  w2 = w2  c1 = c1
  curator = curator  admin = admin  rep = rep  k1 = k1  k2 = k2
  None = None
  Cards = {c1}
  ApproverRoles <- PolicyApprovers
  MaxProposals = 1
  Sessions = {s1, s2}
  Workers = {w1, w2}
  Actors = {admin, rep}
  ActorOf <- MixedActorOf
  RoleOf <- MixedRoleOf
  Keys = {k1, k2}
  KeyOf <- MixedKeyOf
  CaptureTypes = {"request_access"}
  NoteQuotes = {{}}
  TtlRequests = {7}
  MaxTtl = 1
  MaxCalls = 3
  MaxTime = 1
  MaxEdits = 1
  MaxCrashes = 1
INVARIANTS
  GrantsAreBounded
PROPERTIES
  LockIsReleased
  SnapshotIsSettled
CHECK_DEADLOCK FALSE
