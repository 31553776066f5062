CONSTANTS
  e1 = e1 e2 = e2 r1 = r1 r2 = r2
  Appts = {a1, a2, a3}
  Employees = {e1, e2}
  Rooms = {r1, r2}
  NoRoom = NoRoom
  Free = Free
  Self = e1
  Durations = {2}
  Step = 2
  Zones <- ClockChanges
  Nows = {0}
  Others <- Elsewhere
  MaxChanges = 2
  Replacements = {p1, p2}
  Hours <- Bodies
  Original = Original
SPECIFICATION Spec
INVARIANTS TypeOK ShownWasFree NothingFreeMissed ShownInHours ListExact RefusedForCause ReplacedGone
CHECK_DEADLOCK FALSE
SYMMETRY Alike
