CONSTANTS
  s1 = s1 s2 = s2 a1 = a1 a2 = a2 c1 = c1 c2 = c2 r1 = r1 r2 = r2 phone = phone
  Sessions = {s1, s2}
  Appts = {a1}
  Clients = {c1}
  Phones = {phone}
  Records = {r1}
  Slots = {1}
  AutoConfirm = {FALSE}
  Offered <- PagesAndWebhooks
  MaxFaults = 1
  None = None
SPECIFICATION FairSpec
PROPERTIES PaymentsSettle
CHECK_DEADLOCK FALSE
