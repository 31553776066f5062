# Verification of the scheduling platform

TLA+ modules, TLC configurations and TLAPS proofs for this multi-tenant
appointment system: the backend in `src/backend` (FastAPI, SQLAlchemy and
PostgreSQL, rq) and the parts of the frontend in `src/frontend` that keep state
of their own. The first part is the inventory of the system, the second how the
modules divide it, the rest what is modelled, checked and proved.

Check everything with `tlc -config X.cfg M.tla` for

| Module `M` | Configurations `X` |
|---|---|
| `MCAppointmentService` | `Appointments`, `Moves`, `WaitlistProgress`, `TerminalStatus`, `TornTimes`, `DoubleCancel` |
| `MCBookingFlow` | `BookingFlow`, `PaymentPolling` |
| `MCReminders` | `Reminders`, `ReminderGap` |
| `MCAuthSessions` | `AuthSessions` |
| `MCAvailability` | `Availability` |

and `tlapm` on `AppointmentServiceProofs`, `MessageProofs`, `EditProofs`,
`BookingFlowProofs`, `RemindersProofs`, `AuthSessionsProofs` and
`AvailabilityProofs`.

## 1. Inventory

Requests run as coroutines of several processes; each has one database session
and, with the exceptions named below, one transaction that ends with a single
commit. PostgreSQL runs at READ COMMITTED. Components share state only through
its tables; calls between services are nested calls in one session.

| Component | State | Operations | What makes it correct |
|---|---|---|---|
| appointment service (`services/appointment_service.py`) | `appointments`, `appointment_status_history` | create, confirm, complete, cancel, no-show, reschedule | no double booking of an employee or a room; the status graph; the history follows the status; overlapping edits keep each other's columns; clients are told of what is stored |
| exclusion constraints (`models/appointment.py`, migration 0001) | two GiST indexes | checked at every flush | two active rows of one employee or one room never overlap, whatever has been read before |
| waitlist service | `waitlist_entries` | join, cancel, promote (nested in cancel) | no promotion without an offer that the entry's wish covers |
| notification service | `notification_log`, the messages out | `send_notification`, called in its caller's transaction | a message is never about a slot somebody else was granted; a reminder is repeated only after a failure |
| catalog service | `services`, `rooms` | create, PATCH, deactivate | lengths and deposits stay consistent under concurrent PATCHes |
| public booking (`booking_service.py`) | uses appointments, clients, payments | availability, create booking (up to four commits), status poll | every commit is followed by the tenant setting; slots shown can be booked |
| availability (`compute_availability`, `_has_capacity`) | none | list the free slots of an employee and a day | what is free is shown, what is shown is free, and the booking agrees |
| payment service | `payment_records` | create charge, poll, webhook | a stored approval confirms its appointment in the same commit; nothing is confirmed in the provider's name without a payment; a payment watched is settled |
| inbound WhatsApp webhook | none | a client's "1" or "2" | it does what the staff's buttons do |
| reminder worker and scheduler | the rq queue, `notification_log`, a clock | tick, scan per company | a reminder is missing only if scans were too far apart; nothing is sent twice but after a failure; one company's failure does not cost another its turn |
| authentication | `refresh_tokens`, `users` | login, refresh, logout, reset | rotation |
| frontend session (`lib/api.ts`, `AuthContext`) | tokens in `localStorage`, the refresh under way, calls under way | call, 401, shared refresh, sign-in, sign-out, reload | one exchange per page and token; a session ends for a cause; no call waits forever |
| sessions and tenant context (`core/database.py`) | the transaction-local tenant setting | set, lost at commit | no tenant-scoped query runs without the context |
| employee service | `employees`, `employee_availability` | CRUD, replace availability | a replacement replaces |
| clients, companies, dashboard, CLI, pages | their rows | one-statement edits, reads | nothing over time |

Interactions: `cancel_appointment` calls the notification service and
`promote_next_match` in its own transaction; `create_booking` chains
`create_appointment`, a charge or a confirmation, and a status read, each with a
commit; payment approval and the WhatsApp webhook call the same transitions the
staff pages do; the reminder worker shares `notification_log` with requests;
the schedule page lists slots with the check the booking then repeats.

Hard behaviours: reads before an `await` that are used after it (every
service reads, checks, then writes by primary key); two requests on one row;
constraint checks that wait for transactions in progress, in circles if need
be; messages that cannot be taken back when a transaction is lost; webhooks
that arrive early, late or twice; ticks that drift; several commits in one
request; tabs that share one token; clocks that change within a day.
`PROJECT.json` lists each under "hazards", at the line where it bites.

## 2. How the modules divide the system

The modules were written in the order of what would hurt most: the calendar
itself, then money, then messages that depend on time, then sessions, then what
is shown to the public.

- `AppointmentService` models the core at the grain of single queries, locks and
  constraint checks, and is shown to implement `Calendar`, which only says that
  slots are taken, moved and given up one at a time and never meet.
- The modules around it stand on that result rather than repeat it.
  `BookingFlow` takes a creation as one step and a transition as its read and
  its commit. `Availability` contains the calendar (`Agenda == INSTANCE Calendar
  WITH Times <- Int`) for everybody who is not the page's client, and extends
  `EmployeeHours`. `Reminders` has an appointment as a row that moves through
  the status graph of `AppointmentStatus`, which three modules share.
- `AuthSessions` shares no state with the rest.

Nothing of the plan is left open; section 6 says what is out and why.

## 3. The modules

| Module | Models |
|---|---|
| `AppointmentStatus` | the status graph |
| `Schedule` | appointment rows, the exclusion constraints' notion of a clash, the interval test of `has_conflict` |
| `Waitlist` | the waitlist table, join and cancel, `find_oldest_match`, what a promotion stores |
| `AppointmentService` | the requests, interleaved; extends the two above |
| `Calendar` | the abstract specification: one appointment at a time takes, moves or gives up a slot |
| `BookingFlow` | a public booking through its commits, charges, webhooks, the status page, WhatsApp replies and staff |
| `Reminders` | the scheduler, the queue, the worker and its scan |
| `AuthSessions` | the pages of one browser and the auth service |
| `EmployeeHours` | overlapping replacements of working hours |
| `Availability` | the schedule page: list, choice and booking, with everybody else's edits; extends `EmployeeHours`, uses `Calendar` |
| `MC...` | constants for TLC |
| `...Proofs` | theorems |

### AppointmentService

A session `s` serves one request. `pc[s]` is the `await` it stands at, `req[s]`
what it asks for, `snap[s]` the appointment row it read, `new[s]` the version it
flushed and has not committed, `match[s]` the waitlist entry it picked. `appts`,
`history`, `service` and `waitlist` are committed tables, `sent` the messages
the provider took. A row lock is not a variable: `s` holds the lock of
`req[s].appt` while `new[s]` is a row (`HoldsRow`), and that of `match[s]` from
its promotion on (`HoldsEntry`).

| Action | Code |
|---|---|
| `StartCreate`, `StartTransition`, `StartReschedule` | the first read of a request and the checks on it |
| `LoadService` | `_load_service` of a move |
| `CheckEmployee`, `CheckRoom`, `RefuseTaken` | the two queries of `has_conflict`; each sees the commits of its own moment |
| `WriteRow`, `SkipWrite` | the flush, once the row lock is free; SQLAlchemy stores the columns that differ from what was read, on top of the row as committed by then, or nothing at all |
| `PassConstraints`, `RefuseByConstraints` | the exclusion constraints: a clash with a committed row nobody is changing refuses; a clash with a transaction in progress waits |
| `Notify`, `ProviderFails` | `send_notification`, inside the transaction |
| `FindMatch`, `PromoteEntry`, `Offer` | `promote_next_match` |
| `Commit` | the single commit: row, history row and promotion at once |
| `DeadlockVictim` | PostgreSQL's deadlock detector |
| `Crash` | process or connection loss at any `await` |
| `Join`, `LeaveWaitlist`, `PatchService` | requests of one statement |

A request that ends without a commit (refused, failed, killed) is `Rollback`:
the `async with` of `get_tenant_db` closes the session, its writes vanish and
its messages do not.

Simplifications, and why they lose nothing the properties tell apart:

- One tenant and one service. `tenant_id` is a column of both constraints and
  of every query; of the service only duration and `requires_room` reach the
  calendar.
- A request refused by its own first check (status not allowed, 404) changes
  nothing and is not a step. Rows are never deleted, so ids found stay found.
- Ids are `uuid4`: `FreshId` never reuses one, not even that of a lost creation
  a message has named.
- The two constraints are checked in one step. PostgreSQL checks one index
  after the other, so the model waits or refuses where the code may do so a
  moment later.
- A waitlist id stands for `created_at`; ids are taken in any order, because
  `created_at` is the start of the joining transaction and not its commit.
- The public booking's `_has_capacity` is a read before the request and picks
  a room; the model lets a creation come with any room. Employees and rooms stay
  as they are.
- Message texts and `notification_log` rows are left out; a message is its type,
  whom it is about and the time it names.

### Calendar

`ImplementsCalendar` maps an active committed row to the slot it holds and any
other to `Free`. Every step of the service is then one `Take` (a booking, a move,
or a status change that keeps a slot), one `GiveUp`, or a stutter. This says more
than the absence of double booking: a move keeps employee and room, one commit
changes one slot, and the slot is free when it is taken. `BookingFlow` implements
it too, with one employee and slots of one unit.

### BookingFlow

A session `s` serves one request: `pc[s]` is the step it is about to take,
`ctx[s]` whether its transaction has `app.current_tenant_id` set, `job[s]` the
appointment, the transition, the actor it acts as, and what it does after its next
commit, `form[s]` the body, `pay[s]` the payment record in its identity map:
the status it was loaded with, the provider's answer, the version written and not
committed. The identity map is weak: the list of `get_booking_status` may give the
record of the deposit as the booking loaded it or as it is now
(`LoadedStatuses`). `charge` is the provider's side, which changes by itself; `page`
the status page in the client's browser. A record's row lock is `HoldsRecord`.

| Action | Code |
|---|---|
| `StartBook`, `FindOrCreateClient`, `CreateAppointment`, `SlotTaken` | `create_booking` up to its first commit: capacity, the client by phone, the appointment, the branch on the deposit |
| `SetTenantContext` | the calls of `set_tenant_context` after each commit, which dropped the setting (`Resume`) |
| `StartDeposit`, `InsertRecord`, `NoDeposit`, `ChargeCreated`, `ChargeFails` | `create_deposit_charge`, from a booking or the staff's endpoint |
| `Decide`, `RefuseTransition`, `Transition`, `SlotLost` | `confirm_`, `cancel_`, `complete_appointment`: status check, later the UPDATE and commit on whatever the row has become |
| `StartStaff`, `StartReply` | the staff's buttons; `receive_whatsapp_webhook` with its choice of client and appointment |
| `StartView`, `ReadPayments`, `PollProvider`, `Respond` | the status page's poll: `get_booking_status`, `refresh_payment_status`, the page's decision to go on |
| `StartRefresh` | the staff's endpoint for one record |
| `StartWebhook`, `LoadRecord`, `DropWebhook` | `handle_mercadopago_webhook`: the provider is asked before a session is open; an unknown record is acknowledged |
| `ApplyStatus`, `SeeAppointment`, `CommitRecord` | `_apply_status_and_maybe_confirm` and the commit of its caller |
| `StartPatch`, `StorePatch` | `update_service`, the deposit columns |
| `ChargeChanges` | the client pays, the charge lapses, the money is given back (external) |
| `Lose` | the process, its connection or a provider call is lost: nothing uncommitted remains |

Simplifications: amounts, signatures and message texts are left out, the deposit
policy is whether one is set. One employee, so a slot is a time. The transition's
own notification is in `AppointmentService`; its failure is a `Lose`. A webhook
names a record by `external_reference`; a delivery that names none is ignored by
the code and is no step. When the ids of an instance are used up a
request ends as if refused, so that TLC's instances keep moving.

### Reminders

`clock` counts in units; `due` is when rq-scheduler next enqueues, `queue` how
many scans wait, `todo`, `tenant`, `now`, `type`, `batch` and `pending` are the
one worker's local variables, `log` the committed `notification_log`, `sends`
counts what the provider took. Four history variables record when a company was
scanned and what failed.

| Action | Code |
|---|---|
| `PassTime` | time; up to `MaxDelays` units while something is due or under way |
| `Enqueue`, `RestartScheduler` | `workers/scheduler.py`: the registration, rq-scheduler's next time (external) |
| `StartScan`, `VisitTenant` | the job takes the active companies in turn; `_scan_tenant` takes the time once |
| `ListWindow`, `NextWindow` | `list_confirmed_starting_in_window` for each of the two offsets |
| `Remind` | `already_sent` and `send_notification` for one appointment as it was listed |
| `CommitScan` | the one commit of a company |
| `FailTenant` | the exception that is logged before the next company |
| `LoseWorker` | the process dies: the job is not run again |
| `SetStatus`, `Move` | the staff and the clients, in one step each |

Simplifications: a provider's refusal raises, and so ends the company's scan
(`FailTenant`). Starts and offsets are small numbers: only their distances in
intervals matter. Appointments exist from the start: one created later is one
that was pending until then. One worker, as the deployment runs it.

### AuthSessions

One user, one browser. `store` is `tokenStore` in `localStorage`, shared by all
tabs, `user[t]` what a page's `AuthContext` shows, `promise[t]` its
`refreshPromise`, `call` the API calls under way, `req` the requests the auth
service has in hand, `issued` and `live` the rows of `refresh_tokens`. A token
pair is one value: `expired` says its access token no longer works, `live` that
its refresh token does.

| Action | Code |
|---|---|
| `StartCall`, `CallSucceeds`, `LoseCall`, `DeniedAgain` | `apiRequest`: the header, the answer, the second 401 |
| `JoinRefresh`, `StartRefresh`, `NoTokenLeft` | the first 401 and the shared `refreshPromise` |
| `RefreshSucceeds`, `RefreshRefused`, `RefreshLost` | what follows it: the pair is stored, or `emitLoggedOut` |
| `SignIn`, `SignedIn`, `SignInLost`, `SignOut`, `LoadPage` | `AuthContext`: `login`, `/auth/me`, `logout`, a page load |
| `CheckRefresh`, `IssuePair`, `Logout` | `auth_service`: refresh as a read and a commit, login, logout |
| `StartReset`, `CheckLink`, `ListSessions`, `CommitReset` | `reset_password` with `revoke_all_for_user` |
| `Expire`, `Lapse` | time passes for an access token, for a refresh token |

Simplifications: token formats, hashes and wrong passwords are left out: a sign-in
that is refused changes nothing. The promise is cleared, the store written and
every waiter resumed in one step: between them the browser runs only the
continuations of that page, and none of them looks at the promise before its next
call. Two tabs read the store at their own steps.

### EmployeeHours and Availability

`EmployeeHours` follows each `replace_employee_availability` through the snapshot
of its DELETE, the wait for rows another one is deleting, and the commit.

`Availability` follows one client of the schedule page. `pc` is the query the
request is at, `listed` and `left` the windows it read and has not begun,
`window` and `cursor` its place on the grid, `choices` and `room` the rooms it has
still to try, `shown` the list, `offer` the choice. `past` is the history of the
worlds there were since the page asked, which is what "was free" can refer to.

| Action | Code |
|---|---|
| `Ask` | the service, employee and windows of `compute_availability` |
| `SkipPassed`, `TrySlot`, `NextWindow` | its loops over windows and starts, on the wall clock, with instants in UTC (`ToUtc`) |
| `CheckEmployee`, `ListRooms`, `CheckAgain`, `CheckRoom` | `_has_capacity` and `has_conflict`, one query per step, for list and booking |
| `Book`, `CheckSlot`, `CheckSlotRoom`, `Insert` | `create_booking` and `create_appointment`, ending at the constraints |
| `OthersBook`, `OthersCancel` | the `Calendar` |
| `EditRoom`, `EditService`, `EditEmployee`, `StartReplace`, `DeleteWindows`, `CommitReplace`, `LoseReplace` | staff's edits |

Simplifications: one employee and one weekday, since every statement filters on
them; the query for rooms is taken with the first room it yields; the booking's
client, deposit and commits are in `BookingFlow`; a booking that fails at the
insert ends.

## 4. What the runs check

`CHECK_DEADLOCK FALSE` everywhere: every instance bounds its requests, faults or
time, and when they are used up, or nobody asks anything, the system rightly
stops. That nothing waits forever for another is what the liveness properties
say. Symmetry is used only in runs without liveness.

| Run | Instance | Shows |
|---|---|---|
| `appointments` | every operation, 2 sessions, 2 appointments, 2 employees, 1 room, starts 0 and 1, 4 requests | `TypeOK`; `NoDoubleBooking`; `GrantedSlotsDisjoint`; `HistoryAgrees`; `TrailFollowsGraph`; `ChangesAnnounced`; `ImplementsCalendar` |
| `moves` | book, move, cancel; durations 1 and 2 swapped by PATCH, so intervals overlap partly; 1 waitlist entry; 4 requests | `NoDoubleBooking`; `EditsKeptApart`; `FreshEditsSound`; `ImplementsCalendar`, with torn times |
| `waitlist_progress` | book, move, cancel with a waitlist entry, under `FairSpec` | `PromotionsOffered`; `VictimsToldNobody`; `RequestsEnd` |
| `terminal_status` | 1 appointment, 3 requests | `TerminalStatusIsFinal` is violated |
| `torn_times` | 1 appointment, 4 requests | `LengthFromService` is violated |
| `double_cancel` | 1 appointment, 2 entries, 3 requests | `PromotionFreesSlot` is violated |
| `booking_flow` | 2 sessions, 2 appointments, 2 clients of one phone, 1 record, 1 slot; bookings, deposits, replies, webhooks, staff | `TypeOK`; `ContextSet`; `PaidIsConfirmed`; `PaymentConfirmsPaid`; `ConfirmsWithApproval`; `ImplementsCalendar` |
| `payment_polling` | 2 sessions, 1 appointment, 1 record, 1 fault; bookings, the page, staff's refresh, webhooks, deposits, PATCHes, under `FairSpec` | `PaymentsSettle` |
| `reminders` | 2 companies with an appointment each, starts 4 and 5, offsets 3 and 1, interval 2, time up to 3, 1 delay, 1 edit, 1 fault, under `FairSpec` | `TypeOK`; `RemindedInTime`; `ResentOnlyAfterFailure`; `RemindsTheConfirmed`; `TurnsCome` |
| `reminder_gap` | the same, no fault | `CaughtInOneTick` is violated |
| `auth_sessions` | 2 tabs, 2 calls, 2 requests, 6 token pairs, 1 sign-in, any 2 of expiries, reloads, lost answers, lapses and resets, under `FairSpec` | `TypeOK`; `PageSendsTokenOnce`; `SessionEndsForCause`; `ResetEndsSessions`; `NobodyWaitsInVain`; `CallsSettle` |
| `availability` | 3 appointments, 2 employees, 2 rooms, duration 2, step 2, a clock change of one unit either way at 3, 2 changes by others, 2 replacements | `TypeOK`; `ShownWasFree`; `NothingFreeMissed`; `RefusedForCause`; `ShownInHours`; `ListExact`; `ReplacedGone` |

Why the bounds are enough, beyond what the proofs of section 5 cover for every
value:

- Appointments: each conflict is between two rows or two writers of one row, so
  two sessions that serve one request after another meet all of them;
  `MaxRequests` lets two bookings and two requests about them fit.
- `booking_flow`: one record meets its charge, its polls and its webhooks in any
  order; a second appointment lets a reply choose. Faults only roll back, and
  are in `payment_polling`. There one record is the point, because the page
  polls the first it is given; a view, a webhook and a loss still overlap.
- `reminders`: the interval is two units, so a tick can be late by half of it; the
  two windows overlap in time and not in instants; a second company lets the
  first one's scan delay or fail it.
- `auth_sessions`: its behaviours never issue a seventh pair (with seven the states are
  the same), two troubles make an expiry meet a reload, a loss or a reset, or a
  repeated call its second 401, and two calls are enough to share.
- `availability`: a window of the example has two or three candidate slots; the
  clock change falls into one, so that slots are shifted, skipped or repeated;
  one change by others may fall before and one after any query.

### Appointments

- `NoDoubleBooking`: no two active committed rows of one employee or room
  overlap. Rests on the constraints, not on `has_conflict`.
- `GrantedSlotsDisjoint`: requests past the constraints, which may have told
  their clients, never contradict one another or a committed row.
- `HistoryAgrees`: the last history row of an appointment is its status.
- `ChangesAnnounced`: a confirmation, cancellation or move is announced, with the
  right time, before it is committed.
- `TrailFollowsGraph`: read by itself the history is a legal life. It begins with
  a creation, and every later row is an edge of the graph from a status the
  appointment was recorded to have, even where two transitions overlapped and
  the row itself went along no edge (see `terminal_status` below).
- `EditsKeptApart`: no commit changes both status and times of one appointment.
- `FreshEditsSound`: what the violations below break holds of every commit over
  the very row its request read. The status moves along the graph and off no
  terminal one, new times last as long as some version of the service said, and
  only a slot given up is offered to the waitlist. So a stale read is the only
  way to any of the three.
- `VictimsToldNobody`: PostgreSQL's deadlock detector ends no request whose
  client has been told. Every circle of waits is one of constraint checks, which
  come before the message; the row locks of a flush and of a promotion close
  none.
- `PromotionsOffered`: a promoted entry was sent an offer its wish covers.
- `RequestsEnd`: every request ends.

### Bookings and payments

- `ContextSet`: no request reaches a query with the tenant setting lost, on any
  path through its commits.
- `PaidIsConfirmed`: a stored approval never leaves its appointment pending. The
  approval and the transition share a commit, and one that is refused takes the
  approval with it.
- `PaymentConfirmsPaid`: what is confirmed in the provider's name has a record
  whose charge was paid. A late webhook may store an older status over an
  approval (`payment_service.py:108`), which is why the property speaks of the
  charge and not of the record.
- `ConfirmsWithApproval`: the commit that confirms an appointment in the
  provider's name leaves an approved record of it in the table, although the
  status is stored by difference from the one loaded and may be another
  request's by then.
- `ImplementsCalendar`: bookings through all their commits, webhooks, polls,
  replies and staff take and give up the one employee's slots as `Calendar`
  says.
- `PaymentsSettle`: a client who pays the only charge and keeps the status page
  open sees the appointment leave "pending", although webhooks are lost, dropped
  because they arrive before the record (`payment_service.py:167`), or repeated.
  With two charges the page may poll the wrong one (`booking_service.py:237`),
  so the property is about one.

### Reminders

- `RemindedInTime`: a reminder whose instant lies between a company's first and
  latest scans, of an appointment confirmed and unchanged since an interval
  before, is missing only if two scans of that company began more than an
  interval apart.
- `ResentOnlyAfterFailure`: it is sent at most once more than scans of that
  company came to nothing after their messages.
- `RemindsTheConfirmed`: a reminder is untrue when it leaves (cancelled, moved
  away) only if the appointment was changed during the visit that sends it.
- `TurnsCome`: every company of a scan is visited, unless the worker is lost.

### Sessions

- `PageSendsTokenOnce`: a page never sends a refresh token twice.
- `SessionEndsForCause`: a page drops its session by itself only after a lost
  answer to a refresh or a sign-in, a failed call of a page load
  (`AuthContext.tsx:25` then empties the store, whether the call was lost or got
  a second 401 after its refresh), a sign-out, a reset, a lapsed token, or
  because two pages, or a page and itself before a reload, sent one token. Any
  other call may be lost or refused again (`LoseCall`, `DeniedAgain`) and is no
  cause. The comment at `api.ts:16` is about the calls of one page, so two pages
  with one token are a cause and not a violation.
- `ResetEndsSessions`: a token issued before a reset read what it would revoke is
  dead once the reset has committed. One issued between its read and its commit
  may survive (`auth_service.py:142`), and the property says nothing of it.
- `NobodyWaitsInVain`: a call that waits has its page's exchange still under way,
  a sign-in its own request, whoever abandons what meanwhile.
- `CallsSettle`: no call waits forever for the shared refresh.

### Availability

- `ShownWasFree`: what is shown was free at moments since the page asked.
- `NothingFreeMissed`: a candidate that was free all the time is shown.
- `ShownInHours`: a slot shown lies whole within a window of the hours the page
  read, on that window's grid, and in the future.
- `ListExact`: a list made while nothing was committed is exactly the free future
  slots of the grids of those windows.
- `RefusedForCause`: when nothing was committed meanwhile, a slot shown is not
  refused, as the comment at `booking_service.py:78` promises, with one
  exception. The list takes the end of a slot on the wall clock (line 130), the
  booking adds the duration to the instant (line 177): if the clock changes
  within the slot the two ask about different intervals. The property names that
  case and fails without it, so that the comment is false of such a day.
- `ReplacedGone`: a committed replacement leaves no window of any replacement
  committed before it looked. Two that overlap may both leave theirs.

### The violations

Four runs show what the code does against what its comments say.

- `terminal_status`: `_transition` checks the status it read
  (`appointment_service.py:232`), waits for the row lock, and stores its own.
  Confirmed, read by a completion and a cancellation, ends up completed and then
  cancelled. The comment at line 19 says status can never move outside the graph.
- `torn_times`: two moves of one appointment, with a PATCH of the duration
  between their reads of the service. The first stores a new start and end; the
  second stores only the column in which it differs from the row it had read. The
  appointment has the start of one and the end of the other, against
  `models/appointment.py:35`.
- `double_cancel`: a second cancellation that read the row before the first
  committed frees nothing, and promotes another waitlist entry, against
  `appointment_service.py:298`.
- `reminder_gap`: a window begins when its company's scan takes the time
  (`reminders.py:70`) and is one interval long, but a late tick, or a slow company
  before it, puts two scans more than an interval apart. The instant between the
  windows is in neither, against `core/config.py:43`, "exactly one tick".

### Fairness

- `AppointmentService`: weak fairness of `Advance(s)` for each session. The
  event loop resumes every coroutine whose await is ready, PostgreSQL hands a
  free lock to a waiter and its detector breaks every circle of waits, and a
  provider call ends in an answer or an error (the HTTP client has a timeout).
  Arrivals, crashes and PATCHes have none. Weak fairness is enough because a
  session that is not waiting stays able to advance until it does, and a wait
  ends for good when the session waited for ends; the requests that could make
  it wait again are bounded.
- `BookingFlow`: the same for `Advance(s)`. Requests are not bounded here, so a
  row lock may be taken by others again and again: `ApplyStatus(s)` is strongly
  fair because PostgreSQL queues waiters. `StartView` is strongly fair, for all
  sessions together: the client keeps the page open and the server accepts its
  poll sooner or later. Nothing makes a webhook arrive.
- `Reminders`: weak fairness of `Work`, the one worker. Time, ticks and staff
  have none.
- `AuthSessions`: the server handles what it has or the connection reports an
  error, and the browser runs the continuation of every answer: weak fairness of
  `Handle`, of `Continue(c)` per call, and of `Resolve`.

## 5. What is proved

For any values of the constants that satisfy the modules' assumptions, which TLC
evaluates in every run: any number of sessions, appointments, companies, tabs,
tokens, rooms, windows.

| Module | Theorem | Statement |
|---|---|---|
| `AppointmentServiceProofs` | `Invariant` | `Spec => []IInv` |
| | `TypeCorrect` | `Spec => []TypeOK` |
| | `NeverDoubleBooked` | `Spec => []NoDoubleBooking` |
| | `GrantedNeverClash` | `Spec => []GrantedSlotsDisjoint` |
| | `HistoryFollowsStatus` | `Spec => []HistoryAgrees` |
| | `EditsStayApart` | `Spec => EditsKeptApart` |
| | `VictimsAreSilent` | `Spec => []VictimsToldNobody` |
| | `CalendarImplemented` | `Spec => ImplementsCalendar` |
| `MessageProofs` | `MessagesInvariant` | `Spec => [](IInv /\ MessagesOK /\ PromotionsOffered)` |
| | `PromotionsAreOffered` | `Spec => []PromotionsOffered` |
| | `ChangesAreAnnounced` | `Spec => ChangesAnnounced` |
| `EditProofs` | `EditsInvariant` | `Spec => [](IInv /\ EditsOK /\ TrailFollowsGraph)` |
| | `TrailsFollowGraph` | `Spec => []TrailFollowsGraph` |
| | `FreshEditsAreSound` | `Spec => FreshEditsSound` |
| `BookingFlowProofs` | `Invariant` | `Spec => []IInv` |
| | `TypeCorrect` | `Spec => []TypeOK` |
| | `TenantContextKept` | `Spec => []ContextSet` |
| | `PaidAreConfirmed` | `Spec => []PaidIsConfirmed` |
| | `ConfirmedArePaid` | `Spec => []PaymentConfirmsPaid` |
| | `ConfirmationsHaveApproval` | `Spec => ConfirmsWithApproval` |
| | `FlowKeepsCalendar` | `Spec => ImplementsCalendar` |
| `RemindersProofs` | `Invariant` | `Spec => []IInv` |
| | `TypeCorrect` | `Spec => []TypeOK` |
| | `NobodyForgotten` | `Spec => []RemindedInTime` |
| | `RepeatsFollowFailures` | `Spec => []ResentOnlyAfterFailure` |
| | `RemindersAreTrue` | `Spec => RemindsTheConfirmed` |
| `AuthSessionsProofs` | `Invariant` | `Spec => []IInv` |
| | `TypeCorrect` | `Spec => []TypeOK` |
| | `OneExchangePerPage` | `Spec => []PageSendsTokenOnce` |
| | `SessionsSurvive` | `Spec => []SessionEndsForCause` |
| | `WaitersAreServed` | `Spec => []NobodyWaitsInVain` |
| | `ResetsEndSessions` | `Spec => []ResetEndsSessions` |
| `AvailabilityProofs` | `Invariant` | `Spec => []IInv` |
| | `TypeCorrect` | `Spec => []TypeOK` |
| | `ShownAreFree` | `Spec => []ShownWasFree` |
| | `NoneMissed` | `Spec => []NothingFreeMissed` |
| | `BookingsAgree` | `Spec => []RefusedForCause` |
| | `ShownWithinHours` | `Spec => []ShownInHours` |
| | `ListsAreExact` | `Spec => []ListExact` |
| | `HoursReplaced` | `Spec => []ReplacedGone` |

Each proof has a lemma per action, or per action and part of the invariant, and
one that puts them together. Every `IInv`, `MessagesOK` and `EditsOK` was an invariant of a TLC run before it
was proved.

Assumptions: the values that stand for NULL differ from what they stand beside;
times and slots are numbers, waitlist entries are ordered by number; the interval
of the scan and the step of the grid are not zero, nor are durations; every
appointment has a company.

### AppointmentService

`NoDoubleBooking` is not inductive: nothing in it says what a
request about to commit holds. `GrantedSlotsDisjoint` does, and is itself kept
because passing the constraints means no transaction in progress and no
committed row clashes, with the old or the new version. That argument needs to
know that a commit replaces the row the session locked, that a row has one
writer, that a creation's id is nobody else's, and that an uncommitted version
keeps employee and room of the row it replaces, whatever has been committed
since it was read. Those facts are `SessionsOK` (`SessionShape`, `WriteKeeps`,
`RowsApart`). `IInv` is the conjunction. `CommitIsCalendarStep` turns a commit
into a `Take` or a `GiveUp`.

The messages need one more invariant. `MessagesOK` says of each session, by the
place it is at, what has been sent: past `notify`, the message of its operation
with the time of the version it will commit (`NoticeSent`); past `offer`, an
offer to the entry it promotes, inside that entry's window (`OfferFits`). It is
inductive on top of `IInv` because a message is never taken back, a flushed
version is not changed before it is committed, no step changes the window of an
entry, and the row lock keeps the appointment's row from others. A commit then
finds its message sent, which is both theorems.

The edits need another. `EditsOK` says what a request has from its first read:
the status a transition read is in the trail and leads where the transition
goes, the times of a creation or a move are those of a service, and the version
it flushed is the one the row, as it still is, gives. Trails only grow, which
keeps the first; the row lock keeps the row under a flushed version, which keeps
the last. `TrailFollowsGraph` then survives a commit whatever the row has become,
because its history row names the status that was read. `FreshEditsSound`
is the commit once more, with the row read equal to the row there.

`VictimsToldNobody` follows from `SessionsOK` alone: a flush that waits for its
row lock has written nothing, so nobody waits for it, and whoever holds an entry
of the waitlist waits for nobody.

### BookingFlow

The properties are about tables, the danger is in what sessions carry between
their steps. `SessionKnown` says by `pc` what a session knows: `FormKnown`,
`JobKnown` (the appointment is there; after a commit the setting is lost and
`SetTenantContext` comes first), `PaymentKnown` (whoever is about to confirm in
the provider's name, or to commit an approval without a transition, has a charge
that was paid, or an appointment no longer pending) and `VersionKnown` (whose row an
uncommitted version is). Two facts make these last across others' steps: a
charge that was paid stays paid or refunded, and no transition leads back to
pending. `OneWriter` is the row lock; with it a commit stores its
version over the row it was meant for. `RecordsKnown` and `PagesKnown` keep
references whole.

`ConfirmsWithApproval` is the commit seen with `PaymentKnown`: whoever transitions
in the provider's name carries an approved version of a record of that
appointment. For `ImplementsCalendar` a creation is a `Take`; a transition is a
`GiveUp`, a stutter, or, where a stale one revives a cancelled row, a `Take` of a
slot that must still be free (`MayHoldSlot`, the exclusion constraint).

### Reminders

`RemindedInTime` looks at instants long past, so the invariant has to follow a
visit while it works: `VisitKnown` says that whatever was confirmed before the
visit began and lies in a window it has listed is logged, pending or still in the
batch. A change resets `since`, so a row changed in the middle falls out of the
claim. At the commit, the window just closed and those before it leave no gap
unless `late` is set, which is arithmetic over `scanned`, `now` and the interval.
`SendsKnown` counts: a message is logged or pending, or its scan is among the
failures. `ScansKnown` orders first and latest scans and the clock. Inductive is
the form of `RemindedInTime` over the log (`LoggedInTime`); that what is logged was
really sent is `SendsKnown`. `RemindsTheConfirmed` needs that a row in the batch is as it
was listed or was changed since the visit began, which is part of `VisitKnown`.

### AuthSessions

`AnswersFresh`: a pair on its way is one nobody has sent and that no other answer
carries. `StoreUnsent`: a page without a refresh under way has not sent the
token in the store; with the first it survives the arrival of answers, from this
page or another, and gives `PageSendsTokenOnce`. `SessionAlive` is what holds
until something excuses the end of a session: the store is not empty while
anybody is signed in, a token under exchange is live until its one exchange
commits, and every pair still unsent is live. A refusal, or an empty store at a
401, then cannot happen.

`ResetKnown`: what a reset did not read was dead already or is younger, and no
token comes back to life. `WaitersKnown`: each page awaits an exchange of its own
and each sign-in a request of its own, so that what one page ends or abandons is
never what another waits for.

### EmployeeHours and Availability

`ReplacementKnown`: what was committed before the snapshot of the DELETE and is
still there is in that snapshot, and later among the deleted rows, because the
wait for locks skips only what is already gone. `WorldKnown` ties the page to the
worlds it has seen. `GridKnown` says where on the grid the list is, so that
advancing the cursor by a step passes exactly one candidate (`NothingFreeMissed`
needs that no candidate lies between two multiples of the step, which is the
arithmetic of the proof). `RoomsKnown` keeps every room that was free throughout
among those still to try, until one is accepted. `ShownInHours` is preserved by itself, and `ListExact` is
what `ShownWasFree`, `NothingFreeMissed` and `ShownInHours` say together once all
the worlds seen are one. `BookingKnown`: while nothing has
been committed, the booking asks what the list asked and finds a room for as
long as the list's answer stands.

### Only model-checked

`RequestsEnd`, `PaymentsSettle`, `TurnsCome` and `CallsSettle` are liveness under
fairness, out of this prover's reach; the four violations are single behaviours
and need no proof. Everything else the runs check is proved.

## 6. What is not modelled

- Dashboard: one read-only query per figure.
- Clients and companies: edits of one row, on which no other component's
  correctness depends; the client a booking finds or creates is in `BookingFlow`.
- Creating services, rooms and employees: the modules start with the rows there
  (`PROJECT.json` calls these two components "partly").
- Command line, start-up, settings, schemas: no behaviour over time.
- The pages but the status page, the schedule page and the session code: forms
  and rendering.
- Amounts, currencies, webhook signatures, message texts, phone formats, token
  and password formats, HTTP and validation.
- The providers, rq, rq-scheduler, PostgreSQL and the browser, but for what
  the code relies on: these definitions are marked external in `PROJECT.json`.
- Row-level security's filter on `tenant_id` is taken as given: within a
  transaction that has the setting, a query sees its tenant. That the setting is
  there is `ContextSet`.

Some hazards in `PROJECT.json` have no property. Their notes say which: mostly
behaviours the models contain and the code allows, about which neither code nor
docs promise anything (two clients of one phone, a pending booking left by a
crash, a reminder suppressed after a move, an entry promoted twice from one read,
a charge without its record, a page signed in again after a sign-out, a booking
after its hours were edited). The models have the steps; no property claims to
catch them.
