CONSTANTS
  t1 = t1 t2 = t2 a1 = a1 a2 = a2
  Tenants = {t1, t2}
  Appts = {a1, a2}
  TenantOf <- TwoCompanies
  Starts = {4, 5}
  Far = 3
  Near = 1
  Interval = 2
  MaxTime = 3
  MaxDelays = 1
  MaxEdits = 1
  MaxFaults = 1
  None = None
SPECIFICATION FairSpec
INVARIANTS TypeOK RemindedInTime ResentOnlyAfterFailure
PROPERTIES RemindsTheConfirmed TurnsCome
CHECK_DEADLOCK FALSE
