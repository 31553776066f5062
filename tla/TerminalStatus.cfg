CONSTANTS
  s1 = s1 s2 = s2 s3 = s3
  a1 = a1 a2 = a2 a3 = a3
  ana = ana bia = bia sala = sala
  Sessions = {s1, s2}
  Appts = {a1}
  Employees = {ana, bia}
  Rooms = {sala}
  Entries = {}
  Times = {0, 1, 2}
  Starts = {0}
  Services <- OnlyShort
  Offered <- EveryOperation
  Wishes <- AnyTime
  MaxRequests = 3
  NoRow = NoRow NoRoom = NoRoom NoEntry = NoEntry AnyEmployee = AnyEmployee NoRequest = NoRequest
SPECIFICATION Spec
PROPERTIES TerminalStatusIsFinal
CHECK_DEADLOCK FALSE
