SPECIFICATION MCSpec
CONSTANTS
  t1 = t1
  t2 = t2
  Token = {t1, t2}
  RootPattern = {t1}
  WakePattern = {t2}
  MirrorLimit = 3
  MirrorSnapLimit = 2
  DefaultRetention = 2
  QueueCap = 3
  ViewTick = 5
  MinEvery = 2
  SproutAge = 1
  BloomAge = 3
  CellCap = 3
  Fanout = 2
  DreamOps = 1
  MaxId = 3
  CellSteps = 5
  DreamSteps = 5
  ReflexSteps = 5
  AgendaSteps = 5
  Scenarios = {"cells", "dreams", "reflex", "agenda"}
INVARIANTS IndexExact TrackingHeld ReplayAgrees IdsStayFresh ViewsOnTime
PROPERTIES TickRecordsCells RuleFiresInWindow SeedsSettle
CHECK_DEADLOCK FALSE
