--------------------------- MODULE MCBookingFlow ---------------------------
(***************************************************************************)
(* BookingFlow on small instances for TLC.                                 *)
(***************************************************************************)
EXTENDS BookingFlow, TLC

CONSTANTS s1, s2, a1, a2, c1, c2, r1, r2, phone

FormsAndStaff    == {"book", "deposit", "reply", "webhook", "staff"}
PagesAndWebhooks == {"book", "view", "refresh", "webhook", "deposit", "patch"}

Symmetry == Permutations({s1, s2}) \cup Permutations({a1, a2}) \cup Permutations({c1, c2})
              \cup Permutations({r1, r2})
=============================================================================
