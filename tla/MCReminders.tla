----------------------------- MODULE MCReminders -----------------------------
(***************************************************************************)
(* Reminders on small instances for TLC.                                   *)
(***************************************************************************)
EXTENDS Reminders, TLC

CONSTANTS t1, t2, a1, a2

TwoCompanies == a1 :> t1 @@ a2 :> t2
=============================================================================
