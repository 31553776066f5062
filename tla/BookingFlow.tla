----------------------------- MODULE BookingFlow -----------------------------
(***************************************************************************)
(* A public booking from the form to the confirmed appointment:            *)
(* booking_service.py and payment_service.py, the payment provider, the    *)
(* Mercado Pago and WhatsApp webhooks, the staff's own calls, and the      *)
(* status page that polls.                                                 *)
(*                                                                         *)
(* Unlike every other request, a booking commits several times on one      *)
(* session, and each commit drops the tenant setting the row-level         *)
(* security policies need.  Between its commits anything may happen:       *)
(* webhooks arrive, pages poll, staff cancel.                              *)
(*                                                                         *)
(* The calls into appointment_service.py are taken as Calendar, which      *)
(* AppointmentService implements, allows: a creation is one step, and a    *)
(* transition is the read with its status check (Decide) and later the     *)
(* UPDATE with its commit (Transition), on whatever the row has become.    *)
(* One employee is modelled, so a slot stands for a time.                  *)
(***************************************************************************)
EXTENDS AppointmentStatus, Naturals

CONSTANTS
  Sessions,      \* concurrent requests (database sessions)
  Appts,         \* appointment ids
  Clients,       \* client ids
  Phones,        \* phone numbers callers give
  Records,       \* payment record ids
  Slots,         \* starts_at values, in order
  AutoConfirm,   \* values of Company.auto_confirm_public_bookings
  Offered,       \* the kinds of request callers make
  MaxFaults,     \* bound: failed calls and lost requests in a behaviour
  None           \* NULL, or a local variable not assigned

VARIABLES
  appts,     \* appointments: id -> committed row, or None
  clients,   \* clients: id -> committed phone, or None
  records,   \* payment_records: id -> committed row, or None
  service,   \* the deposit columns of the committed service row
  charge,    \* the provider's side: record id -> state of its charge, or None
  page,      \* the status page of an appointment in its client's browser
  pc,        \* where each request is
  ctx,       \* the session's transaction has app.current_tenant_id set
  job,       \* what the request is about
  form,      \* the body of a booking or of a PATCH
  pay,       \* the payment record it works on
  faults     \* number of faults so far

tables == <<appts, clients, records, service>>
locals == <<pc, ctx, job, form, pay>>
vars   == <<tables, charge, page, locals, faults>>

-----------------------------------------------------------------------------
(* Types                                                                   *)

Actors == {"public_booking_auto_confirm", "payment_provider", "client_whatsapp", "staff"}

(* by: the changed_by of the history rows that confirmed the appointment. *)
ApptRow == [client : Clients, slot : Slots, status : Statuses, by : SUBSET Actors]

PaymentStatuses == {"pending", "approved", "rejected"}

RecordRow == [appt : Appts, status : PaymentStatuses]

ServiceRow == [required : BOOLEAN, policy : BOOLEAN]

(* Mercado Pago's statuses, as far as the code tells them apart. *)
ChargeStates == {"pending", "approved", "rejected", "refunded"}

Kinds == {"book", "view", "deposit", "refresh", "webhook", "reply", "staff", "patch"}

Steps == {"idle", "client", "create", "context", "charge", "provider", "decide", "transition",
          "view", "poll", "load", "apply", "see", "commit", "final", "patch"}

(* then: what the request does after its next commit. *)
Job == [kind   : Kinds,
        appt   : Appts \cup {None},
        target : Statuses,
        by     : Actors,
        then   : {"idle", "charge", "decide", "view", "final"}]

Booking == [phone : Phones, slot : Slots, auto : BOOLEAN, client : Clients \cup {None}]

Edit == [column : {"required", "policy"}, value : BOOLEAN]

(* read: the status the record was loaded with; answer: what the provider   *)
(* said; new: the version written and not committed, with its row lock;     *)
(* waiting: create_deposit_charge read the appointment as PENDING.          *)
Payment == [rec     : Records \cup {None},
            read    : PaymentStatuses \cup {None},
            answer  : PaymentStatuses \cup {None},
            new     : PaymentStatuses \cup {None},
            waiting : BOOLEAN]

NoJob == [kind |-> "view", appt |-> None, target |-> Confirmed, by |-> "payment_provider",
          then |-> "idle"]

NoPayment == [rec |-> None, read |-> None, answer |-> None, new |-> None, waiting |-> FALSE]

ASSUME SlotsAssumption == Slots \subseteq Nat

ASSUME NoneAssumption ==
  None \notin ApptRow \cup Phones \cup RecordRow \cup ChargeStates \cup Appts \cup Clients
              \cup Records \cup PaymentStatuses \cup Booking \cup Edit

ASSUME MaxFaultsAssumption == MaxFaults \in Nat

ASSUME OfferedAssumption == Offered \subseteq Kinds /\ AutoConfirm \subseteq BOOLEAN

TypeOK ==
  /\ appts   \in [Appts -> ApptRow \cup {None}]
  /\ clients \in [Clients -> Phones \cup {None}]
  /\ records \in [Records -> RecordRow \cup {None}]
  /\ service \in ServiceRow
  /\ charge  \in [Records -> ChargeStates \cup {None}]
  /\ page    \in [Appts -> {"unopened", "opening", "polling", "stopped"}]
  /\ pc      \in [Sessions -> Steps]
  /\ ctx     \in [Sessions -> BOOLEAN]
  /\ job     \in [Sessions -> Job]
  /\ form    \in [Sessions -> Booking \cup Edit \cup {None}]
  /\ pay     \in [Sessions -> Payment]
  /\ faults  \in 0..MaxFaults

Init ==
  /\ appts = [a \in Appts |-> None]
  /\ clients = [c \in Clients |-> None]
  /\ records = [r \in Records |-> None]
  /\ service \in {v \in ServiceRow : v.required => v.policy}
  /\ charge = [r \in Records |-> None]
  /\ page = [a \in Appts |-> "unopened"]
  /\ pc = [s \in Sessions |-> "idle"]
  /\ ctx = [s \in Sessions |-> FALSE]
  /\ job = [s \in Sessions |-> NoJob]
  /\ form = [s \in Sessions |-> None]
  /\ pay = [s \in Sessions |-> NoPayment]
  /\ faults = 0

-----------------------------------------------------------------------------
(* Sessions and the tenant setting                                         *)

Goto(s, step) == pc' = [pc EXCEPT ![s] = step]

(* get_tenant_db, get_tenant_db_by_slug: a session with the tenant set. *)
Arrive(s, kind, step, work) ==
  /\ pc[s] = "idle"
  /\ kind \in Offered
  /\ Goto(s, step)
  /\ ctx' = [ctx EXCEPT ![s] = TRUE]
  /\ job' = [job EXCEPT ![s] = work]

(* The session is closed: what it wrote and did not commit is gone. *)
Close(s) ==
  /\ Goto(s, "idle")
  /\ ctx' = [ctx EXCEPT ![s] = FALSE]
  /\ job' = [job EXCEPT ![s] = NoJob]
  /\ form' = [form EXCEPT ![s] = None]
  /\ pay' = [pay EXCEPT ![s] = NoPayment]

(* An error path: the request answers with an error status. *)
Rollback(s) ==
  /\ Close(s)
  /\ UNCHANGED <<tables, charge, page, faults>>

(* The request goes on after a commit, which ended the transaction the      *)
(* tenant setting was local to.                                             *)
Resume(s) ==
  /\ Goto(s, "context")
  /\ ctx' = [ctx EXCEPT ![s] = FALSE]
  /\ pay' = [pay EXCEPT ![s].new = None,
                        ![s].read = IF pay[s].rec = None THEN None ELSE pay[s].answer]
  /\ form' = [form EXCEPT ![s] = None]

(* Variant: no set_tenant_context after the commit. *)
ContinueUnscoped(s) ==
  IF job[s].then = "idle" THEN Close(s)
  ELSE /\ Goto(s, job[s].then)
       /\ ctx' = [ctx EXCEPT ![s] = FALSE]
       /\ UNCHANGED <<job, form, pay>>

ContinueOrClose(s) ==
  IF job[s].then = "idle" THEN Close(s) ELSE Resume(s) /\ UNCHANGED job

(* What follows once the tenant is set again: the step after that commit,   *)
(* and where its own commit will lead.                                      *)
AfterThat(step) == IF step \in {"charge", "decide"} THEN "view" ELSE "final"

SetTenantContext(s) ==
  /\ pc[s] = "context"
  /\ ctx' = [ctx EXCEPT ![s] = TRUE]
  /\ Goto(s, job[s].then)
  /\ job' = [job EXCEPT ![s].then = AfterThat(job[s].then)]
  /\ UNCHANGED <<tables, charge, page, form, pay, faults>>

-----------------------------------------------------------------------------
(* create_booking                                                          *)

SlotFree(slot) ==
  \A a \in Appts : appts[a] # None /\ appts[a].status # Cancelled => appts[a].slot # slot

(* get_company, the service, the employee, and _has_capacity. *)
StartBook(s) ==
  /\ \E phone \in Phones, slot \in Slots, auto \in AutoConfirm :
       /\ SlotFree(slot)
       /\ form' = [form EXCEPT ![s] = [phone |-> phone, slot |-> slot, auto |-> auto, client |-> None]]
  /\ Arrive(s, "book", "client", [NoJob EXCEPT !.kind = "book"])
  /\ UNCHANGED <<tables, charge, page, pay, faults>>

(* uuid4: an id no committed row has, and no request in progress inserts. *)
FreshClient(c) ==
  /\ clients[c] = None
  /\ \A s \in Sessions : pc[s] = "create" => form[s].client # c

(* _find_or_create_client: the first of the clients with this phone, in no  *)
(* particular order, or a new one, inserted and not yet committed.          *)
FindOrCreateClient(s) ==
  /\ pc[s] = "client"
  /\ \E c \in Clients :
       /\ \/ clients[c] = form[s].phone
          \/ FreshClient(c) /\ \A d \in Clients : clients[d] # form[s].phone
       /\ form' = [form EXCEPT ![s].client = c]
  /\ Goto(s, "create")
  /\ UNCHANGED <<tables, charge, page, ctx, job, pay, faults>>

(* create_appointment, and the branch create_booking takes after it: the    *)
(* deposit flag is the one the re-fetch before this commit returned.        *)
CreateAppointment(s) ==
  /\ pc[s] = "create"
  /\ SlotFree(form[s].slot)
  /\ \E a \in Appts :
       /\ appts[a] = None
       /\ appts' = [appts EXCEPT ![a] = [client |-> form[s].client, slot |-> form[s].slot,
                                         status |-> Pending, by |-> {}]]
       /\ job' = [job EXCEPT ![s] =
            [kind   |-> "book",
             appt   |-> a,
             target |-> Confirmed,
             by     |-> IF service.required THEN "payment_provider" ELSE "public_booking_auto_confirm",
             then   |-> IF service.required THEN "charge"
                        ELSE IF form[s].auto THEN "decide" ELSE "view"]]
  /\ clients' = [clients EXCEPT ![form[s].client] = form[s].phone]
  /\ Resume(s)
  /\ UNCHANGED <<records, service, charge, page, faults>>

(* ConflictError.  In an instance whose ids are used up the request ends    *)
(* here too.                                                                *)
SlotTaken(s) ==
  /\ pc[s] = "create"
  /\ ~SlotFree(form[s].slot) \/ \A a \in Appts : appts[a] # None
  /\ Rollback(s)

-----------------------------------------------------------------------------
(* create_deposit_charge                                                   *)

(* The staff's endpoint. *)
StartDeposit(s) ==
  /\ \E a \in Appts :
       /\ appts[a] # None
       /\ Arrive(s, "deposit", "charge", [NoJob EXCEPT !.kind = "deposit", !.appt = a])
  /\ UNCHANGED <<tables, charge, page, form, pay, faults>>

FreshRecord(r) ==
  /\ records[r] = None
  /\ charge[r] = None
  /\ \A s \in Sessions : pay[s].rec # r

(* get_appointment, the deposit policy, and the INSERT of the record. *)
InsertRecord(s) ==
  /\ pc[s] = "charge"
  /\ service.required /\ service.policy
  /\ \E r \in Records :
       /\ FreshRecord(r)
       /\ pay' = [pay EXCEPT ![s] = [NoPayment EXCEPT !.rec = r, !.new = "pending",
                                       !.waiting = appts[job[s].appt].status = Pending]]
  /\ Goto(s, "provider")
  /\ UNCHANGED <<tables, charge, page, ctx, job, form, faults>>

(* ValidationError: no deposit is required, or none can be computed.  In an *)
(* instance whose ids are used up the request ends here too.                *)
NoDeposit(s) ==
  /\ pc[s] = "charge"
  /\ ~(service.required /\ service.policy) \/ \A r \in Records : ~FreshRecord(r)
  /\ Rollback(s)

(* Variant: the appointment is confirmed with the charge, paid or not. *)
ConfirmOnCharge(s) ==
  /\ pc[s] = "provider"
  /\ \E answer \in PaymentStatuses :
       /\ charge' = [charge EXCEPT ![pay[s].rec] = answer]
       /\ pay' = [pay EXCEPT ![s].answer = answer, ![s].new = answer]
       /\ Goto(s, IF pay[s].waiting THEN "decide" ELSE "commit")
  /\ UNCHANGED <<tables, page, ctx, job, form, faults>>

(* provider.create_charge answers.  The mock provider approves at once. *)
ChargeCreated(s) ==
  /\ pc[s] = "provider"
  /\ \E answer \in PaymentStatuses :
       /\ charge' = [charge EXCEPT ![pay[s].rec] = answer]
       /\ pay' = [pay EXCEPT ![s].answer = answer, ![s].new = answer]
       /\ Goto(s, IF answer = "approved" /\ pay[s].waiting THEN "decide" ELSE "commit")
  /\ UNCHANGED <<tables, page, ctx, job, form, faults>>

(* The call fails, before or after the provider has created the charge: the *)
(* record its external_reference names is rolled back either way.           *)
ChargeFails(s) ==
  /\ pc[s] = "provider"
  /\ faults < MaxFaults
  /\ faults' = faults + 1
  /\ \E left \in {None, "pending"} : charge' = [charge EXCEPT ![pay[s].rec] = left]
  /\ Close(s)
  /\ UNCHANGED <<tables, page>>

-----------------------------------------------------------------------------
(* confirm_appointment, cancel_appointment, complete_appointment           *)

Decide(s) ==
  /\ pc[s] = "decide"
  /\ job[s].target \in AllowedTransitions[appts[job[s].appt].status]
  /\ Goto(s, "transition")
  /\ UNCHANGED <<tables, charge, page, ctx, job, form, pay, faults>>

(* ConflictError: what the session wrote before, an approval included, is   *)
(* rolled back with it.                                                     *)
RefuseTransition(s) ==
  /\ pc[s] = "decide"
  /\ job[s].target \notin AllowedTransitions[appts[job[s].appt].status]
  /\ Rollback(s)

(* The record's version, if the session wrote one, goes in with its commit. *)
WithRecord(s) ==
  IF pay[s].new = None THEN records
  ELSE [records EXCEPT ![pay[s].rec] = [appt |-> job[s].appt, status |-> pay[s].new]]

(* Variant: no constraint looks at a row that comes back. *)
AlwaysMayHold(a, status) == TRUE

(* A row cancelled since it was read comes back only if its slot is free. *)
MayHoldSlot(a, status) ==
  appts[a].status # Cancelled \/ status = Cancelled \/ SlotFree(appts[a].slot)

Transition(s) ==
  LET a == job[s].appt  to == job[s].target IN
  /\ pc[s] = "transition"
  /\ MayHoldSlot(a, to)
  /\ appts' = [appts EXCEPT ![a].status = to,
                            ![a].by = IF to = Confirmed THEN @ \cup {job[s].by} ELSE @]
  /\ records' = WithRecord(s)
  /\ ContinueOrClose(s)
  /\ UNCHANGED <<clients, service, charge, page, faults>>

(* IntegrityError of the exclusion constraint. *)
SlotLost(s) ==
  /\ pc[s] = "transition"
  /\ ~MayHoldSlot(job[s].appt, job[s].target)
  /\ Rollback(s)

(* The staff's buttons. *)
StartStaff(s) ==
  /\ \E a \in Appts, to \in Statuses \ {Pending} :
       /\ appts[a] # None
       /\ Arrive(s, "staff", "decide",
                 [NoJob EXCEPT !.kind = "staff", !.appt = a, !.target = to, !.by = "staff"])
  /\ UNCHANGED <<tables, charge, page, form, pay, faults>>

(* find_next_actionable_appointment_for_client: the earliest one that is    *)
(* pending or confirmed.                                                    *)
Actionable(c) ==
  {a \in Appts : appts[a] # None /\ appts[a].client = c /\ appts[a].status \in {Pending, Confirmed}}

(* receive_whatsapp_webhook: "1" confirms, "2" cancels, for the first of    *)
(* the clients with the sender's phone.                                     *)
StartReply(s) ==
  /\ \E phone \in Phones, c \in Clients, to \in {Confirmed, Cancelled} :
       /\ clients[c] = phone
       /\ \E a \in Actionable(c) :
            /\ \A b \in Actionable(c) : appts[a].slot <= appts[b].slot
            /\ Arrive(s, "reply", "decide",
                      [NoJob EXCEPT !.kind = "reply", !.appt = a, !.target = to, !.by = "client_whatsapp"])
  /\ UNCHANGED <<tables, charge, page, form, pay, faults>>

-----------------------------------------------------------------------------
(* get_booking_status and refresh_payment_status                           *)

(* A request of the page of appointment a is under way. *)
Viewing(a) == \E s \in Sessions : job[s].kind = "view" /\ job[s].appt = a

(* The status page asks, one request at a time: at once when it opens, then *)
(* while the last answer says that a payment is pending.                    *)
StartView(s) ==
  /\ \E a \in Appts :
       /\ page[a] \in {"opening", "polling"}
       /\ ~Viewing(a)
       /\ Arrive(s, "view", "view", [NoJob EXCEPT !.kind = "view", !.appt = a, !.then = "final"])
  /\ UNCHANGED <<tables, charge, page, form, pay, faults>>

(* The staff's endpoint, for one record. *)
StartRefresh(s) ==
  /\ \E r \in Records :
       /\ records[r] # None
       /\ records[r].status = "pending"
       /\ Arrive(s, "refresh", "poll", [NoJob EXCEPT !.kind = "refresh", !.appt = records[r].appt])
       /\ pay' = [pay EXCEPT ![s] = [NoPayment EXCEPT !.rec = r, !.read = "pending"]]
  /\ UNCHANGED <<tables, charge, page, form, faults>>

RecordsOf(a) == {r \in Records : records[r] # None /\ records[r].appt = a}

(* A record the session has loaded before is not refreshed by the query as  *)
(* long as something refers to it; if nothing does, it is loaded afresh.    *)
LoadedStatuses(s, r) == {records[r].status} \cup (IF r = pay[s].rec THEN {pay[s].read} ELSE {})

(* Variant: the page shows the stored status and polls nobody. *)
ShowPayments(s) ==
  /\ pc[s] = "view"
  /\ \E r \in RecordsOf(job[s].appt) : \E st \in LoadedStatuses(s, r) :
       pay' = [pay EXCEPT ![s] = [NoPayment EXCEPT !.rec = r, !.read = st, !.answer = st]]
  /\ Goto(s, "final")
  /\ UNCHANGED <<tables, charge, page, ctx, job, form, faults>>

(* payments[0], in no particular order; a pending one is polled. *)
ReadPayments(s) ==
  /\ pc[s] = "view"
  /\ \/ \E r \in RecordsOf(job[s].appt) : \E st \in LoadedStatuses(s, r) :
          /\ pay' = [pay EXCEPT ![s] = [NoPayment EXCEPT !.rec = r, !.read = st, !.answer = st]]
          /\ Goto(s, IF st = "pending" THEN "poll" ELSE "final")
     \/ /\ RecordsOf(job[s].appt) = {}
        /\ pay' = [pay EXCEPT ![s] = NoPayment]
        /\ Goto(s, "final")
  /\ job' = [job EXCEPT ![s].by = "payment_provider"]
  /\ UNCHANGED <<tables, charge, page, ctx, form, faults>>

(* Variant: the provider's status stored as it comes. *)
RawStatus(state) == state

(* _STATUS_MAP and _CHARGE_STATUS_TO_PAYMENT_STATUS. *)
MappedStatus(state) == IF state = "refunded" THEN "rejected" ELSE state

(* provider.get_charge_status. *)
PollProvider(s) ==
  /\ pc[s] = "poll"
  /\ pay' = [pay EXCEPT ![s].answer = MappedStatus(charge[pay[s].rec])]
  /\ Goto(s, "apply")
  /\ UNCHANGED <<tables, charge, page, ctx, job, form, faults>>

(* The answer to a booking opens the page; an answer to the page decides    *)
(* whether it goes on polling.                                              *)
Respond(s) ==
  /\ pc[s] = "final"
  /\ page' = [page EXCEPT ![job[s].appt] =
                CASE job[s].kind = "book"      -> "opening"
                  [] pay[s].answer = "pending" -> "polling"
                  [] OTHER                     -> "stopped"]
  /\ Close(s)
  /\ UNCHANGED <<tables, charge, faults>>

-----------------------------------------------------------------------------
(* handle_mercadopago_webhook                                              *)

(* parse_webhook asks the provider before any session is opened.  A         *)
(* delivery may come at any time after the charge exists, late, more than   *)
(* once, or never.                                                          *)
StartWebhook(s) ==
  /\ pc[s] = "idle"
  /\ "webhook" \in Offered
  /\ \E r \in Records :
       /\ charge[r] # None
       /\ pay' = [pay EXCEPT ![s] = [NoPayment EXCEPT !.rec = r, !.answer = MappedStatus(charge[r])]]
  /\ job' = [job EXCEPT ![s] = [NoJob EXCEPT !.kind = "webhook"]]
  /\ Goto(s, "load")
  /\ UNCHANGED <<tables, charge, page, ctx, form, faults>>

(* The session, the tenant from external_reference, and the record, which   *)
(* is not there while its own transaction is in progress.                   *)
LoadRecord(s) ==
  LET r == pay[s].rec IN
  /\ pc[s] = "load"
  /\ records[r] # None
  /\ pay' = [pay EXCEPT ![s].read = records[r].status]
  /\ job' = [job EXCEPT ![s].appt = records[r].appt]
  /\ ctx' = [ctx EXCEPT ![s] = TRUE]
  /\ Goto(s, "apply")
  /\ UNCHANGED <<tables, charge, page, form, faults>>

(* No such record: acknowledged with "ok", so it is not delivered again. *)
DropWebhook(s) ==
  /\ pc[s] = "load"
  /\ records[pay[s].rec] = None
  /\ Rollback(s)

-----------------------------------------------------------------------------
(* _apply_status_and_maybe_confirm                                         *)

HoldsRecord(s, r) == pay[s].new # None /\ pay[s].rec = r

(* Variant: the flush writes paid_at alone, whatever the answer. *)
ApplyPaidAt(s) ==
  LET r == pay[s].rec  answer == pay[s].answer IN
  /\ pc[s] = "apply"
  /\ IF answer # pay[s].read \/ answer = "approved"
     THEN /\ \A t \in Sessions \ {s} : ~HoldsRecord(t, r)
          /\ pay' = [pay EXCEPT ![s].new = records[r].status]
     ELSE UNCHANGED pay
  /\ Goto(s, IF answer = "approved" THEN "see" ELSE "commit")
  /\ UNCHANGED <<tables, charge, page, ctx, job, form, faults>>

(* record.status = new_status and the flush.  paid_at changes with every    *)
(* approval, so it always writes; the status column is written only if it   *)
(* differs from the one loaded.                                             *)
ApplyStatus(s) ==
  LET r == pay[s].rec  answer == pay[s].answer IN
  /\ pc[s] = "apply"
  /\ IF answer # pay[s].read \/ answer = "approved"
     THEN /\ \A t \in Sessions \ {s} : ~HoldsRecord(t, r)
          /\ pay' = [pay EXCEPT ![s].new = IF answer # pay[s].read THEN answer ELSE records[r].status]
     ELSE UNCHANGED pay
  /\ Goto(s, IF answer = "approved" THEN "see" ELSE "commit")
  /\ UNCHANGED <<tables, charge, page, ctx, job, form, faults>>

(* Variant: the approval is stored for the staff to confirm. *)
LeaveToStaff(s) ==
  /\ pc[s] = "see"
  /\ Goto(s, "commit")
  /\ UNCHANGED <<tables, charge, page, ctx, job, form, pay, faults>>

(* get_appointment: a pending one is confirmed, in the same transaction. *)
SeeAppointment(s) ==
  /\ pc[s] = "see"
  /\ Goto(s, IF appts[job[s].appt].status = Pending THEN "decide" ELSE "commit")
  /\ UNCHANGED <<tables, charge, page, ctx, job, form, pay, faults>>

CommitRecord(s) ==
  /\ pc[s] = "commit"
  /\ records' = WithRecord(s)
  /\ ContinueOrClose(s)
  /\ UNCHANGED <<appts, clients, service, charge, page, faults>>

-----------------------------------------------------------------------------
(* update_service: the deposit columns                                     *)

(* The row is read, and the edit is checked against the rest of it. *)
StartPatch(s) ==
  /\ \E edit \in Edit :
       LET merged == [service EXCEPT ![edit.column] = edit.value] IN
       /\ edit.value # service[edit.column]
       /\ merged.required => merged.policy
       /\ form' = [form EXCEPT ![s] = edit]
  /\ Arrive(s, "patch", "patch", [NoJob EXCEPT !.kind = "patch"])
  /\ UNCHANGED <<tables, charge, page, pay, faults>>

(* The UPDATE names the edited column only. *)
StorePatch(s) ==
  /\ pc[s] = "patch"
  /\ service' = [service EXCEPT ![form[s].column] = form[s].value]
  /\ Close(s)
  /\ UNCHANGED <<appts, clients, records, charge, page, faults>>

-----------------------------------------------------------------------------
(* The provider and the faults                                             *)

(* The client pays or the charge lapses; a paid one may be given back. *)
ChargeChanges(r) ==
  /\ \/ charge[r] = "pending" /\ charge' \in {[charge EXCEPT ![r] = st] : st \in {"approved", "rejected"}}
     \/ charge[r] = "approved" /\ charge' = [charge EXCEPT ![r] = "refunded"]
  /\ UNCHANGED <<tables, page, locals, faults>>

(* The process, its connection, or a provider call of another step is lost. *)
Lose(s) ==
  /\ pc[s] # "idle"
  /\ faults < MaxFaults
  /\ faults' = faults + 1
  /\ Close(s)
  /\ UNCHANGED <<tables, charge, page>>

-----------------------------------------------------------------------------
Start(s) ==
  \/ StartBook(s) \/ StartDeposit(s) \/ StartStaff(s) \/ StartReply(s)
  \/ StartRefresh(s) \/ StartWebhook(s) \/ StartPatch(s)

Advance(s) ==
  \/ SetTenantContext(s)
  \/ FindOrCreateClient(s) \/ CreateAppointment(s) \/ SlotTaken(s)
  \/ InsertRecord(s) \/ NoDeposit(s) \/ ChargeCreated(s)
  \/ Decide(s) \/ RefuseTransition(s) \/ Transition(s) \/ SlotLost(s)
  \/ ReadPayments(s) \/ PollProvider(s) \/ Respond(s)
  \/ LoadRecord(s) \/ DropWebhook(s)
  \/ ApplyStatus(s) \/ SeeAppointment(s) \/ CommitRecord(s)
  \/ StorePatch(s)

Next ==
  \/ \E s \in Sessions : Start(s) \/ StartView(s)
  \/ \E s \in Sessions : Advance(s)
  \/ \E s \in Sessions : ChargeFails(s) \/ Lose(s)
  \/ \E r \in Records : ChargeChanges(r)

Spec == Init /\ [][Next]_vars

(* Requests go on while their awaits answer.  PostgreSQL grants a row lock  *)
(* to its waiters in turn, and the server accepts the page's next poll      *)
(* sooner or later: both may be put off by other requests again and again,  *)
(* so their fairness is strong.                                             *)
FairSpec ==
  /\ Spec
  /\ \A s \in Sessions : WF_vars(Advance(s)) /\ SF_vars(ApplyStatus(s))
  /\ SF_vars(\E s \in Sessions : StartView(s))

-----------------------------------------------------------------------------
(* Properties                                                              *)

Querying == {"client", "create", "charge", "decide", "transition", "view", "poll", "apply", "see",
             "commit", "final", "patch"}

(* "Every one of those commits must be followed by re-asserting tenant      *)
(* context before the next tenant-scoped query, or it 500s": no request     *)
(* reaches a query with the setting lost, on any path through its commits.  *)
ContextSet == \A s \in Sessions : pc[s] \in Querying => ctx[s]

(* A payment stored as approved never leaves its appointment waiting: the   *)
(* approval and the confirmation are one commit, or the appointment was no  *)
(* longer pending, whatever webhooks, polls and staff do meanwhile.         *)
PaidIsConfirmed ==
  \A r \in Records :
    records[r] # None /\ records[r].status = "approved" => appts[records[r].appt].status # Pending

(* The provider really took the money of every appointment confirmed in its *)
(* name, and the record of it is there.                                     *)
PaymentConfirmsPaid ==
  \A a \in Appts :
    appts[a] # None /\ "payment_provider" \in appts[a].by =>
      \E r \in RecordsOf(a) : charge[r] \in {"approved", "refunded"}

ConfirmedByPayment(a) == appts[a] # None /\ "payment_provider" \in appts[a].by

(* The commit that confirms an appointment in the provider's name leaves an *)
(* approved record of it in the table, although ApplyStatus may write the   *)
(* status another request has stored meanwhile in place of its own answer.  *)
ConfirmsWithApproval ==
  [][\A a \in Appts : ~ConfirmedByPayment(a) /\ ConfirmedByPayment(a)' =>
       \E r \in RecordsOf(a)' : records'[r].status = "approved"]_vars

UnitSlot(t) == [employee |-> "employee", room |-> "no room", start |-> t, end |-> t + 1]

(* The slot an appointment holds: the employee's time from its start.       *)
HeldSlot(row) == IF row = None \/ row.status = Cancelled THEN None ELSE UnitSlot(row.slot)

Agenda == INSTANCE Calendar WITH
            Employees <- {"employee"}, Rooms <- {}, NoRoom <- "no room",
            Times <- Slots \cup {t + 1 : t \in Slots}, Free <- None,
            booked <- [a \in Appts |-> HeldSlot(appts[a])]

(* Through all the commits of a booking, the webhooks, polls and staff      *)
(* calls between them, and the requests that are lost, the appointments     *)
(* remain an agenda: what this module takes of appointment_service.py is    *)
(* no more than the Calendar promises.                                      *)
ImplementsCalendar == Agenda!Spec

(* The client's page knows of a pending payment, or has yet to ask. *)
Watched(a) == page[a] = "polling" \/ (page[a] = "opening" /\ ~Viewing(a))

(* The only payment of its appointment is paid, and its client watches. *)
PaidAndWatched(r) ==
  /\ records[r] # None
  /\ charge[r] = "approved"
  /\ Watched(records[r].appt)
  /\ RecordsOf(records[r].appt) = {r}

(* "Polling this endpoint IS the refresh mechanism": a client who pays and  *)
(* keeps the status page open sees the appointment confirmed (or staff have *)
(* dealt with it) although webhooks are lost, late or repeated, unless the  *)
(* money goes back or a second charge is made.                              *)
PaymentsSettle ==
  \A r \in Records :
    PaidAndWatched(r) ~>
      (records[r] # None =>
        \/ appts[records[r].appt].status # Pending
        \/ charge[r] # "approved"
        \/ RecordsOf(records[r].appt) # {r})

-----------------------------------------------------------------------------
(* The inductive invariant                                                 *)

Paid(r) == charge[r] \in {"approved", "refunded"}

(* Steps that work on an appointment, and on a payment record. *)
WithAppt == {"context", "charge", "provider", "decide", "transition", "view", "poll", "apply", "see",
             "commit", "final"}

OnRecord == {"provider", "load", "poll", "apply", "see"}

(* Where a request is says what its session knows. *)
FormKnown(s) ==
  /\ pc[s] \in {"client", "create"} => form[s] \in Booking
  /\ pc[s] = "create" => form[s].client \in Clients
  /\ pc[s] = "patch" => form[s] \in Edit

JobKnown(s) ==
  /\ job[s].target # Pending
  /\ pc[s] \in WithAppt => job[s].appt \in Appts /\ appts[job[s].appt] # None
  /\ pc[s] = "provider" => ctx[s]
  /\ pc[s] = "context" => job[s].then # "idle"
  /\ job[s].then = "decide" => pc[s] = "context" /\ job[s].by # "payment_provider"

(* Who confirms in the provider's name holds a version of a paid record. *)
PaymentKnown(s) ==
  LET a == job[s].appt  r == pay[s].rec IN
  /\ pc[s] \in OnRecord => r \in Records
  /\ pc[s] \in {"poll", "apply", "see"} => records[r] # None /\ records[r].appt = a
  /\ pc[s] \in {"load", "apply"} => charge[r] # None /\ pay[s].answer # None
  /\ pc[s] \in {"load", "apply", "see"} /\ pay[s].answer = "approved" => Paid(r)
  /\ pc[s] = "poll" => pay[s].read = "pending"
  /\ pc[s] = "apply" /\ pay[s].read = "approved" => appts[a].status # Pending
  /\ pc[s] = "see" => /\ pay[s].answer = "approved"
                      /\ pay[s].new # None
                      /\ pay[s].new # "approved" => appts[a].status # Pending
  /\ pc[s] = "provider" => /\ pay[s].new # None
                           /\ records[r] = None
                           /\ charge[r] = None
                           /\ ~pay[s].waiting => appts[a].status # Pending
  /\ pc[s] \in {"decide", "transition"} /\ job[s].by = "payment_provider" =>
       pay[s].new = "approved" /\ Paid(r)
  /\ pc[s] = "commit" /\ pay[s].new = "approved" => appts[a].status # Pending

(* An uncommitted version of a record, and whose row it is. *)
VersionKnown(s) ==
  pay[s].new # None =>
    /\ pc[s] \in {"provider", "decide", "transition", "see", "commit"}
    /\ pay[s].rec \in Records
    /\ records[pay[s].rec] # None => records[pay[s].rec].appt = job[s].appt
    /\ pc[s] # "provider" => charge[pay[s].rec] # None

SessionKnown(s) == FormKnown(s) /\ JobKnown(s) /\ PaymentKnown(s) /\ VersionKnown(s)

(* One writer per payment record. *)
OneWriter ==
  \A s, t \in Sessions : \A r \in Records : HoldsRecord(s, r) /\ HoldsRecord(t, r) => s = t

RecordsKnown ==
  \A r \in Records : records[r] # None => charge[r] # None /\ appts[records[r].appt] # None

PagesKnown == \A a \in Appts : page[a] # "unopened" => appts[a] # None

IInv ==
  /\ TypeOK
  /\ \A s \in Sessions : SessionKnown(s)
  /\ OneWriter
  /\ RecordsKnown
  /\ PagesKnown
  /\ ContextSet
  /\ PaidIsConfirmed
  /\ PaymentConfirmsPaid
=============================================================================
