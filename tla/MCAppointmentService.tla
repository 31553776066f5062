----------------------- MODULE MCAppointmentService -----------------------
(***************************************************************************)
(* AppointmentService on small instances for TLC.                          *)
(***************************************************************************)
EXTENDS AppointmentService, TLC

CONSTANTS s1, s2, s3, a1, a2, a3, ana, bia, sala

\* One service that takes a room; a PATCH changes how long it lasts.
ShortAndLong == {[duration |-> 1, requiresRoom |-> TRUE], [duration |-> 2, requiresRoom |-> TRUE]}
OnlyShort    == {[duration |-> 1, requiresRoom |-> TRUE]}

EveryOperation  == Operations
BookMoveCancel  == {"create_staff", "cancel", "reschedule"}

AnyTime == {[employee |-> AnyEmployee, from |-> 0, to |-> 1]}

Symmetry == Permutations({s1, s2}) \cup Permutations({a1, a2})
=============================================================================
