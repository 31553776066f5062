CONSTANTS
  t1 = t1 t2 = t2 c1 = c1 c2 = c2 r1 = r1 r2 = r2
  Tabs = {t1, t2}
  Calls = {c1, c2}
  Requests = {r1, r2}
  Tokens = {1, 2, 3, 4, 5, 6}
  MaxSignIns = 1
  MaxTroubles = 2
  None = None
SPECIFICATION FairSpec
INVARIANTS TypeOK PageSendsTokenOnce SessionEndsForCause ResetEndsSessions NobodyWaitsInVain
PROPERTIES CallsSettle
CHECK_DEADLOCK FALSE
