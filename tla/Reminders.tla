------------------------------ MODULE Reminders ------------------------------
(***************************************************************************)
(* The reminder worker: rq-scheduler puts the scan on the queue once per   *)
(* interval, the one rq worker runs it, and the scan visits the companies  *)
(* in turn, each in a transaction of its own.                              *)
(*                                                                         *)
(* A company's scan takes the time once, and for each kind of reminder     *)
(* lists the confirmed appointments whose reminding instant (the start     *)
(* less the offset) falls in the next interval, messages their clients one *)
(* by one, and commits the log of what it sent at the very end.  Ticks can *)
(* be late, scans can overlap, fail half way or be lost with the worker,   *)
(* and staff change appointments all the while.                            *)
(***************************************************************************)
EXTENDS AppointmentStatus, Integers

CONSTANTS
  Tenants,      \* active companies
  Appts,        \* appointment ids
  TenantOf,     \* the company of each appointment
  Starts,       \* starts_at values
  Far, Near,    \* the 24 h and the 2 h offset
  Interval,     \* reminder_scan_interval_minutes
  MaxTime,      \* bound: the last instant
  MaxDelays,    \* bound: time units that pass while a scan is due or under way
  MaxEdits,     \* bound: changes of appointments
  MaxFaults,    \* bound: scans that fail, workers lost, scheduler restarts
  None          \* no company, or no scan yet

VARIABLES
  clock, delays,
  due,        \* when rq-scheduler next enqueues the scan
  queue,      \* scans on the rq queue
  appts,      \* appointments: id -> committed row
  edits,
  log,        \* committed notification_logs: <<appointment, type>> pairs
  sends,      \* messages the provider took, by appointment and type
  pc,         \* where the worker is
  todo,       \* companies this scan has still to visit
  tenant,     \* the company it visits
  now,        \* the time that visit took at its beginning
  type,       \* the kind of reminder it is at
  batch,      \* listed appointments it has still to look at
  pending,    \* log rows it has inserted and not committed
  faults,
  lost,       \* whether the worker was ever lost
  first, scanned, late, failures    \* history: see below

(* first, scanned: when a company's first and latest committed scans began; *)
(* late: one began more than an interval after the one before it;           *)
(* failures: how many of its scans came to nothing.                        *)
history  == <<first, scanned, late, failures>>
schedule == <<due, queue>>
worker   == <<pc, todo, tenant, now, type, batch, pending>>
calendar == <<appts, edits>>
outside  == <<log, sends>>
vars     == <<clock, delays, schedule, calendar, outside, worker, faults, lost, history>>

-----------------------------------------------------------------------------
(* _REMINDER_WINDOWS: in this order. *)
Types == {"reminder_24h", "reminder_2h"}

Offset(ty) == IF ty = "reminder_24h" THEN Far ELSE Near

(* since: when the row last changed. *)
Row == [start : Starts, status : Statuses, since : Nat]

Reminders == Appts \X Types

ASSUME TimeAssumption ==
  /\ Far \in Nat /\ Near \in Nat
  /\ Interval \in Nat \ {0}
  /\ MaxTime \in Nat
  /\ Starts \subseteq Int

ASSUME TenantAssumption == TenantOf \in [Appts -> Tenants] /\ None \notin Tenants \cup Int

TypeOK ==
  /\ clock    \in Nat
  /\ delays   \in Nat
  /\ due      \in Nat
  /\ queue    \in Nat
  /\ appts    \in [Appts -> Row]
  /\ edits    \in Nat
  /\ log      \subseteq Reminders
  /\ sends    \in [Reminders -> Nat]
  /\ pc       \in {"loop", "list", "send"}
  /\ todo     \subseteq Tenants
  /\ tenant   \in Tenants \cup {None}
  /\ now      \in Nat
  /\ type     \in Types
  /\ batch    \subseteq Appts
  /\ pending  \subseteq Reminders
  /\ faults   \in Nat
  /\ lost     \in BOOLEAN
  /\ first    \in [Tenants -> Nat \cup {None}]
  /\ scanned  \in [Tenants -> Nat \cup {None}]
  /\ late     \in [Tenants -> BOOLEAN]
  /\ failures \in [Tenants -> Nat]

Init ==
  /\ clock = 0 /\ delays = 0 /\ due = 0 /\ queue = 0
  /\ appts \in [Appts -> [start : Starts, status : {Pending, Confirmed}, since : {0}]]
  /\ edits = 0
  /\ log = {}
  /\ sends = [x \in Reminders |-> 0]
  /\ pc = "loop" /\ todo = {} /\ tenant = None
  /\ now = 0 /\ type = "reminder_24h" /\ batch = {} /\ pending = {}
  /\ faults = 0 /\ lost = FALSE
  /\ first = [t \in Tenants |-> None]
  /\ scanned = [t \in Tenants |-> None]
  /\ late = [t \in Tenants |-> FALSE]
  /\ failures = [t \in Tenants |-> 0]

-----------------------------------------------------------------------------
(* Time, and the appointments                                              *)

Working == pc # "loop" \/ todo # {}

Busy == clock >= due \/ queue > 0 \/ Working

(* Time passes freely while the scheduler and the worker have nothing to    *)
(* do, and up to MaxDelays units in all while they have.                    *)
PassTime ==
  /\ clock < MaxTime
  /\ Busy => delays < MaxDelays
  /\ delays' = IF Busy THEN delays + 1 ELSE delays
  /\ clock' = clock + 1
  /\ UNCHANGED <<schedule, calendar, outside, worker, faults, lost, history>>

Change(a, row) ==
  /\ edits < MaxEdits
  /\ edits' = edits + 1
  /\ appts' = [appts EXCEPT ![a] = row]
  /\ UNCHANGED <<clock, delays, schedule, outside, worker, faults, lost, history>>

(* _transition: confirmed, completed or cancelled. *)
SetStatus(a) ==
  \E to \in AllowedTransitions[appts[a].status] :
    Change(a, [appts[a] EXCEPT !.status = to, !.since = clock])

(* reschedule_appointment. *)
Move(a) ==
  /\ ~Terminal(appts[a].status)
  /\ \E start \in Starts \ {appts[a].start} :
       Change(a, [appts[a] EXCEPT !.start = start, !.since = clock])

-----------------------------------------------------------------------------
(* The scheduler                                                           *)

(* rq-scheduler: the job goes on the queue when it is due, and is due again *)
(* an interval after that moment.                                           *)
Enqueue ==
  /\ clock >= due
  /\ due' = clock + Interval
  /\ queue' = queue + 1
  /\ UNCHANGED <<clock, delays, calendar, outside, worker, faults, lost, history>>

(* main() again: the registration replaces the one with the same id. *)
RestartScheduler ==
  /\ faults < MaxFaults
  /\ faults' = faults + 1
  /\ due' = clock
  /\ UNCHANGED <<clock, delays, queue, calendar, outside, worker, lost, history>>

-----------------------------------------------------------------------------
(* The worker                                                              *)

(* The visit is over: what it knew is gone, committed or not. *)
Leave ==
  /\ tenant' = None
  /\ now' = 0
  /\ type' = "reminder_24h"
  /\ batch' = {}
  /\ pending' = {}

(* Variant: a scan nobody enqueued. *)
StartUnqueued ==
  /\ ~Working
  /\ queue' = queue - 1
  /\ todo' = Tenants
  /\ UNCHANGED <<clock, delays, due, calendar, outside, pc, tenant, now, type, batch, pending, faults, lost, history>>

(* The rq worker takes the job, and the job lists the active companies. *)
StartScan ==
  /\ ~Working
  /\ queue > 0
  /\ queue' = queue - 1
  /\ todo' = Tenants
  /\ UNCHANGED <<clock, delays, due, calendar, outside, pc, tenant, now, type, batch, pending, faults, lost, history>>

(* _scan_tenant begins: the time is taken once. *)
VisitTenant ==
  /\ pc = "loop"
  /\ \E t \in todo : tenant' = t /\ todo' = todo \ {t}
  /\ now' = clock
  /\ type' = "reminder_24h"
  /\ pending' = {}
  /\ pc' = "list"
  /\ UNCHANGED <<clock, delays, schedule, calendar, outside, batch, faults, lost, history>>

(* When its client should be reminded of an appointment. *)
Instant(a, ty) == appts[a].start - Offset(ty)

(* Variant: the window is open at both ends. *)
InOpenWindow(a, ty) == now < Instant(a, ty) /\ Instant(a, ty) < now + Interval

InWindow(a, ty) == now <= Instant(a, ty) /\ Instant(a, ty) < now + Interval

(* Variant: whatever the status. *)
AnyInNextInterval(ty) ==
  {a \in Appts : TenantOf[a] = tenant /\ InWindow(a, ty)}

(* list_confirmed_starting_in_window. *)
InNextInterval(ty) ==
  {a \in Appts : TenantOf[a] = tenant /\ appts[a].status = Confirmed /\ InWindow(a, ty)}

ListWindow ==
  /\ pc = "list"
  /\ batch' = InNextInterval(type)
  /\ pc' = "send"
  /\ UNCHANGED <<clock, delays, schedule, calendar, outside, todo, tenant, now, type, pending, faults, lost, history>>

(* Variant: no reminder is guarded. *)
NeverSent(x) == FALSE

(* already_sent: committed rows and the session's own. *)
AlreadySent(x) == x \in log \cup pending

(* send_notification for one appointment of the list, as it was when it was *)
(* listed.                                                                  *)
Remind ==
  /\ pc = "send"
  /\ \E a \in batch :
       /\ batch' = batch \ {a}
       /\ IF AlreadySent(<<a, type>>)
          THEN UNCHANGED <<sends, pending>>
          ELSE /\ sends' = [sends EXCEPT ![<<a, type>>] = @ + 1]
               /\ pending' = pending \cup {<<a, type>>}
  /\ UNCHANGED <<clock, delays, schedule, calendar, log, pc, todo, tenant, now, type, faults, lost, history>>

NextWindow ==
  /\ pc = "send" /\ batch = {}
  /\ type = "reminder_24h"
  /\ type' = "reminder_2h"
  /\ batch' = InNextInterval("reminder_2h")
  /\ UNCHANGED <<clock, delays, schedule, calendar, outside, pc, todo, tenant, now, pending, faults, lost, history>>

(* One commit for the company, after all its messages. *)
CommitScan ==
  /\ pc = "send" /\ batch = {}
  /\ type = "reminder_2h"
  /\ log' = log \cup pending
  /\ Leave
  /\ pc' = "loop"
  /\ first' = [first EXCEPT ![tenant] = IF @ = None THEN now ELSE @]
  /\ scanned' = [scanned EXCEPT ![tenant] = now]
  /\ late' = [late EXCEPT ![tenant] = @ \/ (scanned[tenant] # None /\ now > scanned[tenant] + Interval)]
  /\ UNCHANGED <<clock, delays, schedule, calendar, sends, todo, faults, lost, failures>>

(* Variant: the exception ends the job. *)
FailJob ==
  /\ pc \in {"list", "send"}
  /\ faults < MaxFaults
  /\ faults' = faults + 1
  /\ failures' = [failures EXCEPT ![tenant] = @ + 1]
  /\ Leave
  /\ todo' = {}
  /\ pc' = "loop"
  /\ UNCHANGED <<clock, delays, schedule, calendar, outside, lost, first, scanned, late>>

(* An exception in a company's scan is logged, and the next one is visited. *)
FailTenant ==
  /\ pc \in {"list", "send"}
  /\ faults < MaxFaults
  /\ faults' = faults + 1
  /\ failures' = [failures EXCEPT ![tenant] = @ + 1]
  /\ Leave
  /\ pc' = "loop"
  /\ UNCHANGED <<clock, delays, schedule, calendar, outside, todo, lost, first, scanned, late>>

(* The worker's process dies: the job is not run again. *)
LoseWorker ==
  /\ Working
  /\ faults < MaxFaults
  /\ faults' = faults + 1
  /\ lost' = TRUE
  /\ failures' = IF pc = "loop" THEN failures ELSE [failures EXCEPT ![tenant] = @ + 1]
  /\ Leave
  /\ todo' = {}
  /\ pc' = "loop"
  /\ UNCHANGED <<clock, delays, schedule, calendar, outside, first, scanned, late>>

-----------------------------------------------------------------------------
Work ==
  \/ StartScan \/ VisitTenant \/ ListWindow \/ Remind
  \/ NextWindow \/ CommitScan

Next ==
  \/ PassTime
  \/ \E a \in Appts : SetStatus(a) \/ Move(a)
  \/ Enqueue \/ RestartScheduler
  \/ Work
  \/ FailTenant \/ LoseWorker

Spec == Init /\ [][Next]_vars

(* The one worker goes on with its job. *)
FairSpec == Spec /\ WF_vars(Work)

-----------------------------------------------------------------------------
(* Properties                                                              *)

(* The instant of x lies between a company's first and latest committed     *)
(* scans, and the appointment has been confirmed and unchanged since well   *)
(* before it.                                                               *)
Expected(a, ty) ==
  LET t == TenantOf[a] IN
  /\ appts[a].status = Confirmed
  /\ appts[a].since + Interval <= Instant(a, ty)
  /\ first[t] # None
  /\ first[t] <= Instant(a, ty)
  /\ Instant(a, ty) < scanned[t] + Interval

(* "so every appointment's 24h/2h-before instant gets caught in exactly one *)
(* tick": however late the ticks, whatever fails and whoever else is being  *)
(* scanned, the provider took no message for a reminder only if two scans   *)
(* of its own company were more than an interval apart.                     *)
RemindedInTime ==
  \A a \in Appts, ty \in Types :
    Expected(a, ty) /\ ~late[TenantOf[a]] => sends[<<a, ty>>] > 0

(* What the comment says, without the condition. *)
CaughtInOneTick ==
  \A a \in Appts, ty \in Types : Expected(a, ty) => sends[<<a, ty>>] > 0

(* "so the periodic scan can run at any frequency without double-sending":  *)
(* overlapping windows send nothing twice; only a scan that was lost after  *)
(* its messages repeats them.                                               *)
ResentOnlyAfterFailure ==
  \A x \in Reminders : sends[x] <= 1 + failures[TenantOf[x[1]]]

(* The job "scans every active tenant for confirmed appointments", from a   *)
(* list it took before the first message: a reminder is untrue when it      *)
(* leaves (cancelled, moved away) only if staff made it so during the visit *)
(* that sends it.                                                           *)
RemindsTheConfirmed ==
  [][\A a \in Appts, ty \in Types :
       sends'[<<a, ty>>] # sends[<<a, ty>>] =>
         \/ appts[a].status = Confirmed /\ InWindow(a, ty)
         \/ appts[a].since >= now]_vars

(* "One tenant's failure must not stop the scan for every other tenant":    *)
(* every company of a scan gets its turn, unless the worker itself is lost. *)
TurnsCome ==
  \A t \in Tenants : t \in todo ~> ((pc = "list" /\ tenant = t) \/ lost)

-----------------------------------------------------------------------------
(* The inductive invariant                                                 *)

(* The types the visit in progress has listed. *)
Listed(ty) == pc = "send" /\ (ty = type \/ ty = "reminder_24h")

(* What a visit has listed, it has logged or is about to; and what it still *)
(* has to look at is due, or changed since the visit began.                 *)
VisitKnown ==
  /\ pc \in {"list", "send"} => tenant \in Tenants /\ now <= clock
  /\ pc = "list" => type = "reminder_24h"
  /\ pc \notin {"list", "send"} => pending = {} /\ batch = {}
  /\ \A x \in pending : TenantOf[x[1]] = tenant
  /\ \A a \in batch :
       /\ TenantOf[a] = tenant
       /\ \/ appts[a].status = Confirmed /\ InWindow(a, type)
          \/ appts[a].since >= now
  /\ \A a \in Appts, ty \in Types :
       /\ Listed(ty)
       /\ TenantOf[a] = tenant
       /\ appts[a].status = Confirmed
       /\ appts[a].since < now
       /\ InWindow(a, ty)
       => \/ <<a, ty>> \in log \cup pending
          \/ ty = type /\ a \in batch

(* A message is logged, about to be, or its scan was lost; and nothing is   *)
(* logged without a message.                                                *)
SendsKnown ==
  \A x \in Reminders :
    /\ sends[x] <= failures[TenantOf[x[1]]] + (IF x \in log \cup pending THEN 1 ELSE 0)
    /\ x \in log \cup pending => sends[x] > 0

(* RemindedInTime as the log has it. *)
LoggedInTime ==
  \A a \in Appts, ty \in Types :
    Expected(a, ty) /\ ~late[TenantOf[a]] => <<a, ty>> \in log

ScansKnown ==
  \A t \in Tenants :
    /\ first[t] # None <=> scanned[t] # None
    /\ scanned[t] # None => scanned[t] <= clock

IInv == TypeOK /\ VisitKnown /\ SendsKnown /\ ScansKnown /\ LoggedInTime
=============================================================================
