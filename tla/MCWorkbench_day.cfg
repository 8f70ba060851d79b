\* The wire alone.
SPECIFICATION BenchSpec
CONSTANTS
  t1 = t1  t2 = t2  ann = ann  rep = rep
  Tabs = {t1, t2}
  Personas = {ann, rep}
  Reviewers = {ann}
  Default = rep
  Nobody = Nobody  Ended = Ended
  MaxSessions = 2
  SlotCount = 1
  MaxRequests = 2
  MaxClicks = 2
  MaxMishaps = 1
  Lengths = {0, 1, 2, 120, 121, 240, 480, 481, 1280}
  NameLengths = {38, 100, 161, 201}
  Widths = {1, 3, 4, 6}
  Found = {0, 1, 13, 21}
  None = None
  Wrong = Wrong  NoFile = NoFile  NoVault = NoVault
  EnvNames = {"URL", "USER", "PASS", "RC_URL", "RC_USER", "RC_PASS"}
  Fixtures = {"known"}
  Setups <- AllSetups
  Vaults <- AllVaults
  MaxEdits = 1
  Subjects = {"wire"}
INVARIANT DayIsServed
CHECK_DEADLOCK FALSE
