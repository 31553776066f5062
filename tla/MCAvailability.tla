--------------------------- MODULE MCAvailability ---------------------------
(***************************************************************************)
(* Availability on a small instance for TLC: two rooms, a colleague who    *)
(* uses them too, a grid of two units, and days on which the clock goes    *)
(* forward or goes back.                                                   *)
(***************************************************************************)
EXTENDS Availability, TLC

CONSTANTS e1, e2, r1, r2

Bodies == {{}, {[from |-> 0, to |-> 3], [from |-> 1, to |-> 5]}}

Alike == Permutations(Appts) \cup Permutations(Replacements)

ClockChanges == {[at |-> 3, by |-> -1], [at |-> 3, by |-> 1]}

Taken(e, r, from, to) == [employee |-> e, room |-> r, start |-> from, end |-> to]

Elsewhere == {Taken(e1, NoRoom, 1, 2), Taken(e2, r1, 0, 4), Taken(e2, r2, 2, 4),
              Taken(e1, r1, 4, 6)}
=============================================================================
