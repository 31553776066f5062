-------------------------- MODULE AppointmentStatus --------------------------
(***************************************************************************)
(* The statuses an appointment has and the graph _transition lets them     *)
(* move along, shared by every module that speaks of appointments.         *)
(***************************************************************************)

Pending   == "pending"
Confirmed == "confirmed"
Completed == "completed"
Cancelled == "cancelled"

(* The Python enum also has RESCHEDULED, which no code path stores. *)
Statuses == {Pending, Confirmed, Completed, Cancelled}

(* The status graph, and the only edges _transition lets through. *)
AllowedTransitions ==
  [s \in Statuses |->
     CASE s = Pending   -> {Confirmed, Cancelled}
       [] s = Confirmed -> {Completed, Cancelled}
       [] OTHER         -> {}]

Terminal(status) == AllowedTransitions[status] = {}
=============================================================================
