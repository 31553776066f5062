------------------------------ MODULE Schedule ------------------------------
(***************************************************************************)
(* The vocabulary the modules of this project share: appointment rows,     *)
(* their status graph, and when two rows claim one resource at one time.   *)
(*                                                                         *)
(* One tenant and one service are modelled.  A tenant's rows never meet    *)
(* another's (tenant_id is a column of both exclusion constraints and a    *)
(* filter of every query), and of the service only its duration and        *)
(* whether it needs a room reach the calendar.                             *)
(***************************************************************************)
EXTENDS AppointmentStatus, Naturals

CONSTANTS
  Appts,       \* appointment ids
  Employees,   \* employee ids
  Rooms,       \* room ids
  Times,       \* the instants a row may carry
  NoRow,       \* a row that does not exist
  NoRoom       \* room_id IS NULL

Row == [employee : Employees,
        room     : Rooms \cup {NoRoom},
        start    : Times,
        end      : Times,
        status   : Statuses,
        noShow   : BOOLEAN]

ASSUME TimesAssumption == Times \subseteq Nat

ASSUME NoRowAssumption == NoRow \notin Row

ASSUME NoRoomAssumption == NoRoom \notin Rooms

(* A row takes part in the exclusion constraints (their WHERE clause). *)
Active(r) == r # NoRow /\ r.status # Cancelled

(* Variant: uniqueness of the start alone. *)
StartsTogether(r, q) == r.start = q.start

(* tstzrange(starts_at, ends_at) && ...: half-open, and an empty range     *)
(* overlaps nothing.                                                       *)
RangesOverlap(r, q) ==
  /\ r.start < r.end
  /\ q.start < q.end
  /\ r.start < q.end
  /\ q.start < r.end

(* Variant: the room constraint missing. *)
SameEmployee(r, q) == r.employee = q.employee

(* The equality columns of the two constraints. *)
SameResource(r, q) ==
  \/ r.employee = q.employee
  \/ r.room # NoRoom /\ r.room = q.room

(* Two row versions no exclusion constraint lets stand together. *)
Clash(r, q) ==
  /\ Active(r)
  /\ Active(q)
  /\ SameResource(r, q)
  /\ RangesOverlap(r, q)

(* What has_conflict's WHERE clause asks of a stored row, for the interval  *)
(* [start, end): plain comparisons, so an empty interval can match.         *)
OccupiesInterval(r, start, end) ==
  /\ Active(r)
  /\ r.start < end
  /\ r.end > start
=============================================================================
