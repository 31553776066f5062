CONSTANTS
  s1 = s1 s2 = s2 s3 = s3
  a1 = a1 a2 = a2 a3 = a3
  ana = ana bia = bia sala = sala
  Sessions = {s1, s2}
  Appts = {a1, a2}
  Employees = {ana}
  Rooms = {}
  Entries = {1}
  Times = {0, 1, 2}
  Starts = {0, 1}
  Services <- OnlyShort
  Offered <- BookMoveCancel
  Wishes <- AnyTime
  MaxRequests = 4
  NoRow = NoRow NoRoom = NoRoom NoEntry = NoEntry AnyEmployee = AnyEmployee NoRequest = NoRequest
SPECIFICATION FairSpec
INVARIANTS PromotionsOffered VictimsToldNobody
PROPERTIES RequestsEnd
CHECK_DEADLOCK FALSE
