\* The audit log: one crash in the middle of a write, then another append.
SPECIFICATION FilesSpec
CONSTANTS
  w1 = w1  w2 = w2  a1 = a1  a2 = a2
  None = None  Torn = Torn
  Writers = {w1}
  Anchorers = {}
  MaxWrites = 4
  MaxCrashes = 1
  MaxTampers = 0
  p1 = p1  p2 = p2  p3 = p3  p4 = p4
  Given = Given  Short = Short  EnvKey = EnvKey  Absent = Absent
  Processes = {p1, p2, p3, p4}
  Injected = {p4}
  Mortal = {p1}
  Beginnings = {Absent, Short, Given}
  m1 = m1  m2 = m2  lead = lead  deal = deal  k1 = k1  i1 = i1  i2 = i2  i3 = i3
  NoKey = NoKey  NoId = NoId  Broken = Broken
  Minters = {m1, m2}
  Types = {lead, deal}
  NaturalKeys = {k1}
  Ids = {i1, i2, i3}
  MaxMints = 3
  MaxDeaths = 1
  ann = ann  bob = bob  t1 = t1  t2 = t2
  s1 = s1  Card = Card  TornLine = TornLine
  Actors = {ann, bob}
  Tabs = {t1, t2}
  SignIns <- OneOrTwoReviewers
  Sources = {s1}
  MaxSaves = 3
  MaxMoves = 1
  MaxTears = 1
  Subjects = {"audit"}
INVARIANT AcknowledgedIsRead
CHECK_DEADLOCK FALSE
