CONSTANTS
  s1 = s1 s2 = s2 a1 = a1 a2 = a2 c1 = c1 c2 = c2 r1 = r1 r2 = r2 phone = phone
  Sessions = {s1, s2}
  Appts = {a1, a2}
  Clients = {c1, c2}
  Phones = {phone}
  Records = {r1}
  Slots = {1}
  AutoConfirm = {TRUE}
  Offered <- FormsAndStaff
  MaxFaults = 0
  None = None
SPECIFICATION Spec
SYMMETRY Symmetry
INVARIANTS TypeOK ContextSet PaidIsConfirmed PaymentConfirmsPaid
PROPERTIES ConfirmsWithApproval ImplementsCalendar
CHECK_DEADLOCK FALSE
