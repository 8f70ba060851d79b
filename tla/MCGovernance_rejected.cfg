\* Two approvers decide the same draft, one approving and one rejecting.
SPECIFICATION Spec
CONSTANTS
  s1 = s1  s2 = s2  w1 = w1  w2 = w2  c1 = c1
  curator = curator  admin = admin  rep = rep  k1 = k1  k2 = k2
  None = None
  Cards = {c1}
  ApproverRoles <- PolicyApprovers
  MaxProposals = 1
  Sessions = {s1, s2}
  Workers = {w1}
  Actors = {curator, admin}
  ActorOf <- RaceActorOf
  RoleOf <- RaceRoleOf
  Keys = {k1}
  KeyOf <- SameKey
  CaptureTypes = {"request_access"}
  NoteQuotes = {{}}
  TtlRequests = {1}
  MaxTtl = 1
  MaxCalls = 4
  MaxTime = 0
  MaxEdits = 0
  MaxCrashes = 0
PROPERTY RejectedIsNeverApplied
CHECK_DEADLOCK FALSE
