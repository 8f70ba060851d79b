\* Two approvers and one worker on one access request: every order of their
\* reads, audit events, appends and writes.  Two workers that apply and roll back
\* two proposals on one card, with one crash or one edit of the vault, or one
\* proposal with both.
SPECIFICATION WritesSpec
CONSTANTS
  s1 = s1  s2 = s2  w1 = w1  w2 = w2  c1 = c1
  curator = curator  admin = admin  rep = rep  k1 = k1  k2 = k2
  None = None
  Cards = {c1}
  ApproverRoles <- PolicyApprovers
  MaxProposals = 2
  Sessions = {s1, s2}
  Workers = {w1, w2}
  Actors = {curator, admin}
  ActorOf <- RaceActorOf
  RoleOf <- RaceRoleOf
  Keys = {k1}
  KeyOf <- SameKey
  CaptureTypes = {"request_access", "flag_stale_or_wrong"}
  NoteQuotes = {{}, {1}}
  TtlRequests = {1}
  MaxTtl = 1
  MaxCalls = 4
  MaxTime = 0
  MaxEdits = 1
  MaxCrashes = 1
INVARIANTS
  TypeOK
  BulletsAnswerToApprovals
  BulletsAtMostOnce
  DeadLettersAreOnRecord
PROPERTIES
  ImplementsLifecycle
  RolledBackIsClean
  AppliedIsOnTheCard
  OnlyRollbackRemoves
  FinalOnceQuiet
CHECK_DEADLOCK FALSE
