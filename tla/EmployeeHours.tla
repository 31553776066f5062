---------------------------- MODULE EmployeeHours ----------------------------
(***************************************************************************)
(* replace_employee_availability under concurrent requests: a replacement  *)
(* deletes the windows its DELETE sees, inserts its own and commits, all   *)
(* in one transaction.  Two overlapping replacements do not see each       *)
(* other's new windows, so both sets can stay; a replacement that is over  *)
(* before another begins must leave nothing behind after it.               *)
(*                                                                         *)
(* One employee and one weekday are modelled: every statement filters on   *)
(* the employee, and readers filter on the weekday.                        *)
(***************************************************************************)
EXTENDS Naturals

CONSTANTS
  Replacements,  \* requests that replace the windows
  Hours,         \* the bodies they may carry: sets of [from, to] wall-clock times
  Original       \* the owner of the windows that were there before

VARIABLES
  windows,  \* employee_availabilities: the committed rows
  step,     \* where each replacement is
  hours,    \* its body
  target,   \* the rows the snapshot of its DELETE has
  gone,     \* the rows it has deleted and not committed, with their locks
  before    \* history: the replacements committed when that snapshot was taken

hoursVars == <<windows, step, hours, target, gone, before>>

Owners == Replacements \cup {Original}

Window == [owner : Owners, from : Nat, to : Nat]

ASSUME HoursAssumption ==
  /\ Hours \subseteq SUBSET [from : Nat, to : Nat]
  /\ Original \notin Replacements

HoursTypeOK ==
  /\ windows \subseteq Window
  /\ step    \in [Replacements -> {"idle", "deleting", "deleted", "committed", "lost"}]
  /\ hours   \in [Replacements -> Hours \cup {{}}]
  /\ target  \in [Replacements -> SUBSET Window]
  /\ gone    \in [Replacements -> SUBSET Window]
  /\ before  \in [Replacements -> SUBSET Owners]

(* A row per window of the body. *)
Rows(owner, body) == {[owner |-> owner, from |-> h.from, to |-> h.to] : h \in body}

HoursInit ==
  /\ \E body \in Hours : windows = Rows(Original, body)
  /\ step = [r \in Replacements |-> "idle"]
  /\ hours = [r \in Replacements |-> {}]
  /\ target = [r \in Replacements |-> {}]
  /\ gone = [r \in Replacements |-> {}]
  /\ before = [r \in Replacements |-> {}]

Committed == {r \in Replacements : step[r] = "committed"} \cup {Original}

(* Variant: windows that the body repeats are left alone. *)
Differing(r, body) == {w \in windows : [from |-> w.from, to |-> w.to] \notin body}

(* WHERE tenant_id = ... AND employee_id = ... *)
Replaced(r, body) == windows

(* The employee is found, and the DELETE begins. *)
StartReplace(r) ==
  /\ step[r] = "idle"
  /\ \E body \in Hours :
       /\ hours' = [hours EXCEPT ![r] = body]
       /\ target' = [target EXCEPT ![r] = Replaced(r, body)]
  /\ before' = [before EXCEPT ![r] = Committed]
  /\ step' = [step EXCEPT ![r] = "deleting"]
  /\ UNCHANGED <<windows, gone>>

(* It waits for the rows another replacement is deleting; those whose       *)
(* deletion commits meanwhile it skips.                                     *)
DeleteWindows(r) ==
  /\ step[r] = "deleting"
  /\ \A q \in Replacements \ {r} : gone[q] \cap target[r] = {}
  /\ gone' = [gone EXCEPT ![r] = target[r] \cap windows]
  /\ step' = [step EXCEPT ![r] = "deleted"]
  /\ UNCHANGED <<windows, hours, target, before>>

(* The transaction ends, and its locks with it. *)
EndReplace(r) ==
  /\ hours' = [hours EXCEPT ![r] = {}]
  /\ target' = [target EXCEPT ![r] = {}]
  /\ gone' = [gone EXCEPT ![r] = {}]

(* The inserts, the re-fetch and the commit. *)
CommitReplace(r) ==
  /\ step[r] = "deleted"
  /\ windows' = (windows \ gone[r]) \cup Rows(r, hours[r])
  /\ step' = [step EXCEPT ![r] = "committed"]
  /\ EndReplace(r)
  /\ UNCHANGED before

(* The request fails or its process is lost: nothing has happened. *)
LoseReplace(r) ==
  /\ step[r] \in {"deleting", "deleted"}
  /\ step' = [step EXCEPT ![r] = "lost"]
  /\ EndReplace(r)
  /\ UNCHANGED <<windows, before>>

HoursStep == \E r \in Replacements : DeleteWindows(r) \/ CommitReplace(r) \/ LoseReplace(r)

(* "Replace": when a replacement has committed, no window is left of any    *)
(* that was committed before it looked, whatever overlapped it, was waited  *)
(* for or was lost.                                                         *)
ReplacedGone ==
  \A r \in Replacements :
    step[r] = "committed" => \A w \in windows : w.owner \notin before[r]
=============================================================================
