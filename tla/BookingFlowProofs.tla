-------------------------- MODULE BookingFlowProofs --------------------------
(***************************************************************************)
(* Proofs about BookingFlow, for any number of sessions, appointments,     *)
(* payment records, clients and faults.                                    *)
(*                                                                         *)
(* PaidIsConfirmed is not inductive: that a commit may store APPROVED      *)
(* without a confirmation depends on what its session saw earlier, and on  *)
(* no appointment becoming pending again.  IInv adds what each session     *)
(* knows at each place.  A step of one session moves its own local         *)
(* variables and moves the shared ones onward only (Onward), so the other  *)
(* sessions know what they knew: BystanderKnown, used by every step.       *)
(***************************************************************************)
EXTENDS BookingFlow, TLAPS

(* The local variables of session t stay. *)
Untouched(t) ==
  /\ pc'[t] = pc[t]
  /\ ctx'[t] = ctx[t]
  /\ job'[t] = job[t]
  /\ form'[t] = form[t]
  /\ pay'[t] = pay[t]

(* Rows stay, appointments do not become pending again, records stay with   *)
(* their appointment, and charges do not become unpaid.                     *)
Onward ==
  /\ \A a \in Appts : appts[a] # None =>
       appts'[a] # None /\ (appts[a].status # Pending => appts'[a].status # Pending)
  /\ \A r \in Records : records[r] # None =>
       records'[r] # None /\ records'[r].appt = records[r].appt
  /\ \A r \in Records : charge[r] # None => charge'[r] # None
  /\ \A r \in Records : Paid(r) => Paid(r)'

(* The record t is about to insert stays its own. *)
KeepsFresh(t) ==
  pay[t].new # None =>
    /\ records[pay[t].rec] = None => records'[pay[t].rec] = None
    /\ pc[t] = "provider" => charge'[pay[t].rec] = None

(* Nobody else holds the record s has written after the step. *)
Alone(s) ==
  pay'[s].new # None => \A t \in Sessions \ {s} : ~HoldsRecord(t, pay'[s].rec)

(* What the tables say of payments. *)
Ledger == RecordsKnown /\ PagesKnown /\ PaidIsConfirmed /\ PaymentConfirmsPaid

(* The statuses and names are not None. *)
LEMMA NotNone ==
  /\ \A st \in PaymentStatuses : st # None
  /\ \A st \in ChargeStates : st # None
  /\ \A r \in Records : r # None
  /\ \A a \in Appts : a # None
  /\ \A c \in Clients : c # None
  BY NoneAssumption

LEMMA BystanderKnown ==
  ASSUME IInv, NEW t \in Sessions, Untouched(t), Onward, KeepsFresh(t)
  PROVE  SessionKnown(t)'
<1>1. SessionKnown(t) /\ pay[t] \in Payment /\ job[t] \in Job /\ pc[t] \in Steps
  BY DEF IInv, TypeOK
<1>2. FormKnown(t)'
  BY <1>1 DEF SessionKnown, FormKnown, Untouched
<1>3. JobKnown(t)'
  BY <1>1 DEF SessionKnown, JobKnown, Untouched, Onward, WithAppt
<1>4. PaymentKnown(t)'
  <2>1. /\ pc[t] \in OnRecord => pay[t].rec \in Records
        /\ pc[t] \in WithAppt => job[t].appt \in Appts /\ appts[job[t].appt] # None
        /\ pay[t].new = "approved" => pay[t].rec \in Records
    BY <1>1, NotNone DEF SessionKnown, PaymentKnown, JobKnown, VersionKnown, PaymentStatuses
  <2>2. pc[t] \in WithAppt /\ appts[job[t].appt].status # Pending => appts'[job[t].appt].status # Pending
    BY <2>1 DEF Onward
  <2>3. pc[t] = "provider" => records'[pay[t].rec] = None /\ charge'[pay[t].rec] = None
    BY <1>1 DEF SessionKnown, PaymentKnown, KeepsFresh
  <2>4. /\ pc[t] \in {"poll", "apply", "see"} =>
             records'[pay[t].rec] # None /\ records'[pay[t].rec].appt = job[t].appt
        /\ pc[t] \in {"load", "apply"} => charge'[pay[t].rec] # None
    BY <1>1, <2>1 DEF SessionKnown, PaymentKnown, Onward, OnRecord
  <2>5. Paid(pay[t].rec) /\ pay[t].rec \in Records => Paid(pay[t].rec)'
    BY DEF Onward, Untouched, Paid
  <2>6. job'[t] = job[t] /\ pay'[t] = pay[t] /\ pc'[t] = pc[t]
    BY DEF Untouched
  <2> QED
    BY <1>1, <2>1, <2>2, <2>3, <2>4, <2>5, <2>6 DEF SessionKnown, PaymentKnown, OnRecord, WithAppt, Paid
<1>5. VersionKnown(t)'
  BY <1>1 DEF SessionKnown, VersionKnown, Untouched, Onward, KeepsFresh
<1> QED
  BY <1>2, <1>3, <1>4, <1>5 DEF SessionKnown

(* A step of session s preserves the invariant if it leaves s in a known    *)
(* state and the tables in order.                                           *)
LEMMA SessionStep ==
  ASSUME IInv, NEW s \in Sessions, TypeOK', SessionKnown(s)', Ledger', Onward, Alone(s),
         \A t \in Sessions \ {s} : Untouched(t) /\ KeepsFresh(t),
         pc'[s] \in Querying => ctx'[s]
  PROVE  IInv'
<1>1. \A t \in Sessions : SessionKnown(t)'
  BY BystanderKnown
<1>2. OneWriter'
  BY DEF OneWriter, HoldsRecord, Alone, Untouched, IInv
<1>3. ContextSet'
  BY DEF ContextSet, Untouched, IInv
<1> QED
  BY <1>1, <1>2, <1>3 DEF IInv, Ledger

(* The same for a step that stores nothing and asks the provider nothing    *)
(* that changes its mind.                                                   *)
LEMMA LocalStep ==
  ASSUME IInv, NEW s \in Sessions, TypeOK', SessionKnown(s)', Alone(s),
         UNCHANGED <<tables, charge, page>>,
         \A t \in Sessions \ {s} : Untouched(t),
         pc'[s] \in Querying => ctx'[s]
  PROVE  IInv'
<1>1. Onward
  BY DEF Onward, tables, Paid
<1>2. \A t \in Sessions \ {s} : KeepsFresh(t)
  BY DEF KeepsFresh, tables, IInv, SessionKnown, PaymentKnown
<1>3. Ledger'
  BY DEF Ledger, IInv, RecordsKnown, PagesKnown, PaidIsConfirmed, PaymentConfirmsPaid, RecordsOf, tables
<1> QED
  BY <1>1, <1>2, <1>3, SessionStep

(* A closed session knows nothing and holds nothing. *)
LEMMA Closed ==
  ASSUME TypeOK, NEW s \in Sessions, Close(s)
  PROVE  /\ pc' \in [Sessions -> Steps]
         /\ ctx' \in [Sessions -> BOOLEAN]
         /\ job' \in [Sessions -> Job]
         /\ form' \in [Sessions -> Booking \cup Edit \cup {None}]
         /\ pay' \in [Sessions -> Payment]
         /\ SessionKnown(s)'
         /\ pay'[s].new = None
         /\ pc'[s] = "idle"
         /\ \A t \in Sessions \ {s} : Untouched(t)
<1>1. NoJob \in Job /\ NoPayment \in Payment
  BY DEF NoJob, NoPayment, Job, Payment, Kinds, Statuses, Actors, Confirmed
<1>2. pc'[s] = "idle" /\ job'[s] = NoJob /\ pay'[s] = NoPayment
  BY DEF Close, Goto, TypeOK
<1>3. SessionKnown(s)'
  BY <1>2 DEF SessionKnown, FormKnown, JobKnown, PaymentKnown, VersionKnown, WithAppt, OnRecord,
              NoJob, NoPayment, Confirmed, Pending
<1>4. \A t \in Sessions \ {s} : Untouched(t)
  BY DEF Untouched, Close, Goto, TypeOK
<1>5. /\ pc' \in [Sessions -> Steps]
      /\ ctx' \in [Sessions -> BOOLEAN]
      /\ job' \in [Sessions -> Job]
      /\ form' \in [Sessions -> Booking \cup Edit \cup {None}]
      /\ pay' \in [Sessions -> Payment]
  BY <1>1 DEF Close, Goto, TypeOK, Steps
<1> QED
  BY <1>2, <1>3, <1>4, <1>5 DEF NoPayment

LEMMA RollbackStep ==
  ASSUME IInv, NEW s \in Sessions, Rollback(s)
  PROVE  IInv'
<1>1. TypeOK'
  BY Closed DEF Rollback, IInv, TypeOK, tables
<1> QED
  BY <1>1, Closed, LocalStep DEF Rollback, IInv, Alone, Querying

-----------------------------------------------------------------------------
(* Arrivals                                                                *)

(* A request that begins with an appointment, or with none yet. *)
LEMMA ArrivalStep ==
  ASSUME IInv, NEW s \in Sessions, NEW kind, NEW step, NEW work \in Job,
         Arrive(s, kind, step, work),
         step \in {"client", "charge", "decide", "view", "patch"},
         work.target # Pending, work.then # "decide",
         step = "decide" => work.by # "payment_provider",
         step \in {"charge", "decide", "view"} => work.appt \in Appts /\ appts[work.appt] # None,
         form' \in [Sessions -> Booking \cup Edit \cup {None}],
         \A t \in Sessions \ {s} : form'[t] = form[t],
         step = "client" => form'[s] \in Booking,
         step = "patch" => form'[s] \in Edit,
         UNCHANGED <<tables, charge, page, pay, faults>>
  PROVE  IInv'
<1>1. pc'[s] = step /\ job'[s] = work /\ ctx'[s] = TRUE /\ pc[s] = "idle"
  BY DEF Arrive, Goto, IInv, TypeOK
<1>2. TypeOK'
  BY DEF Arrive, Goto, IInv, TypeOK, Steps, tables
<1>3. pay[s].new = None /\ pay'[s] = pay[s]
  BY <1>1 DEF IInv, SessionKnown, VersionKnown
<1>4. SessionKnown(s)'
  BY <1>1, <1>3 DEF SessionKnown, FormKnown, JobKnown, PaymentKnown, VersionKnown, WithAppt, OnRecord, tables
<1>5. \A t \in Sessions \ {s} : Untouched(t)
  BY DEF Untouched, Arrive, Goto, IInv, TypeOK
<1> QED
  BY <1>1, <1>2, <1>3, <1>4, <1>5, LocalStep DEF Alone

LEMMA NoJobType == NoJob \in Job /\ NoJob.target = Confirmed /\ Confirmed # Pending /\ NoJob.then = "idle"
  BY DEF NoJob, Job, Kinds, Statuses, Actors, Confirmed, Pending

(* An arrival that is about an appointment and carries no form. *)
LEMMA ArrivalAbout ==
  ASSUME IInv, NEW s \in Sessions, NEW kind, NEW step \in {"charge", "decide", "view"}, NEW work \in Job,
         Arrive(s, kind, step, work),
         work.target # Pending, work.then # "decide",
         step = "decide" => work.by # "payment_provider",
         work.appt \in Appts, appts[work.appt] # None,
         UNCHANGED <<tables, charge, page, form, pay, faults>>
  PROVE  IInv'
<1>1. form' \in [Sessions -> Booking \cup Edit \cup {None}] /\ \A t \in Sessions \ {s} : form'[t] = form[t]
  BY DEF IInv, TypeOK
<1>2. step # "client" /\ step # "patch"
  OBVIOUS
<1> QED
  BY <1>1, <1>2, ArrivalStep

LEMMA StartBookStep ==
  ASSUME IInv, NEW s \in Sessions, StartBook(s)
  PROVE  IInv'
<1> DEFINE work == [NoJob EXCEPT !.kind = "book"]
<1>1. work \in Job /\ work.target # Pending /\ work.then # "decide"
  BY NoJobType DEF Job, Kinds
<1>2. PICK phone \in Phones, slot \in Slots, auto \in AutoConfirm :
        form' = [form EXCEPT ![s] = [phone |-> phone, slot |-> slot, auto |-> auto, client |-> None]]
  BY DEF StartBook
<1>3. [phone |-> phone, slot |-> slot, auto |-> auto, client |-> None] \in Booking
  BY OfferedAssumption DEF Booking
<1>4. /\ form' \in [Sessions -> Booking \cup Edit \cup {None}]
      /\ form'[s] \in Booking
      /\ \A t \in Sessions \ {s} : form'[t] = form[t]
  BY <1>2, <1>3 DEF IInv, TypeOK
<1>5. Arrive(s, "book", "client", work) /\ UNCHANGED <<tables, charge, page, pay, faults>>
  BY DEF StartBook
<1> HIDE DEF work
<1> QED
  BY <1>1, <1>4, <1>5, ArrivalStep

LEMMA StartPatchStep ==
  ASSUME IInv, NEW s \in Sessions, StartPatch(s)
  PROVE  IInv'
<1> DEFINE work == [NoJob EXCEPT !.kind = "patch"]
<1>1. work \in Job /\ work.target # Pending /\ work.then # "decide"
  BY NoJobType DEF Job, Kinds
<1>2. PICK edit \in Edit : form' = [form EXCEPT ![s] = edit]
  BY DEF StartPatch
<1>3. /\ form' \in [Sessions -> Booking \cup Edit \cup {None}]
      /\ form'[s] \in Edit
      /\ \A t \in Sessions \ {s} : form'[t] = form[t]
  BY <1>2 DEF IInv, TypeOK
<1>4. Arrive(s, "patch", "patch", work) /\ UNCHANGED <<tables, charge, page, pay, faults>>
  BY DEF StartPatch
<1> HIDE DEF work
<1> QED
  BY <1>1, <1>3, <1>4, ArrivalStep

LEMMA StartDepositStep ==
  ASSUME IInv, NEW s \in Sessions, StartDeposit(s)
  PROVE  IInv'
<1>1. PICK a \in Appts : appts[a] # None /\ Arrive(s, "deposit", "charge", [NoJob EXCEPT !.kind = "deposit", !.appt = a])
  BY DEF StartDeposit
<1> DEFINE work == [NoJob EXCEPT !.kind = "deposit", !.appt = a]
<1>2. work \in Job /\ work.target # Pending /\ work.then # "decide" /\ work.appt = a
  BY NoJobType DEF Job, Kinds
<1>3. Arrive(s, "deposit", "charge", work) /\ UNCHANGED <<tables, charge, page, form, pay, faults>>
  BY <1>1 DEF StartDeposit
<1> HIDE DEF work
<1> QED
  BY <1>1, <1>2, <1>3, ArrivalAbout

LEMMA StartStaffStep ==
  ASSUME IInv, NEW s \in Sessions, StartStaff(s)
  PROVE  IInv'
<1>1. PICK a \in Appts, to \in Statuses \ {Pending} :
        /\ appts[a] # None
        /\ Arrive(s, "staff", "decide", [NoJob EXCEPT !.kind = "staff", !.appt = a, !.target = to, !.by = "staff"])
  BY DEF StartStaff
<1> DEFINE work == [NoJob EXCEPT !.kind = "staff", !.appt = a, !.target = to, !.by = "staff"]
<1>2. work \in Job /\ work.target # Pending /\ work.then # "decide" /\ work.appt = a /\ work.by # "payment_provider"
  BY NoJobType DEF Job, Kinds, Actors
<1>3. Arrive(s, "staff", "decide", work) /\ UNCHANGED <<tables, charge, page, form, pay, faults>>
  BY <1>1 DEF StartStaff
<1> HIDE DEF work
<1> QED
  BY <1>1, <1>2, <1>3, ArrivalAbout

LEMMA StartReplyStep ==
  ASSUME IInv, NEW s \in Sessions, StartReply(s)
  PROVE  IInv'
<1>1. PICK c \in Clients, to \in {Confirmed, Cancelled} : \E a \in Actionable(c) :
        Arrive(s, "reply", "decide",
               [NoJob EXCEPT !.kind = "reply", !.appt = a, !.target = to, !.by = "client_whatsapp"])
  BY DEF StartReply
<1>2. PICK a \in Appts :
        /\ appts[a] # None
        /\ Arrive(s, "reply", "decide",
                  [NoJob EXCEPT !.kind = "reply", !.appt = a, !.target = to, !.by = "client_whatsapp"])
  BY <1>1 DEF Actionable
<1> DEFINE work == [NoJob EXCEPT !.kind = "reply", !.appt = a, !.target = to, !.by = "client_whatsapp"]
<1>3. work \in Job /\ work.target # Pending /\ work.then # "decide" /\ work.appt = a /\ work.by # "payment_provider"
  BY NoJobType DEF Job, Kinds, Actors, Statuses, Confirmed, Cancelled, Pending
<1>4. Arrive(s, "reply", "decide", work) /\ UNCHANGED <<tables, charge, page, form, pay, faults>>
  BY <1>2 DEF StartReply
<1> HIDE DEF work
<1> QED
  BY <1>2, <1>3, <1>4, ArrivalAbout

LEMMA StartViewStep ==
  ASSUME IInv, NEW s \in Sessions, StartView(s)
  PROVE  IInv'
<1>1. PICK a \in Appts :
        /\ page[a] \in {"opening", "polling"}
        /\ Arrive(s, "view", "view", [NoJob EXCEPT !.kind = "view", !.appt = a, !.then = "final"])
  BY DEF StartView
<1> DEFINE work == [NoJob EXCEPT !.kind = "view", !.appt = a, !.then = "final"]
<1>2. work \in Job /\ work.target # Pending /\ work.then # "decide" /\ work.appt = a
  BY NoJobType DEF Job, Kinds
<1>3. Arrive(s, "view", "view", work) /\ UNCHANGED <<tables, charge, page, form, pay, faults>>
  BY <1>1 DEF StartView
<1>4. appts[a] # None
  BY <1>1 DEF IInv, PagesKnown
<1> HIDE DEF work
<1> QED
  BY <1>2, <1>3, <1>4, ArrivalAbout

LEMMA StartRefreshStep ==
  ASSUME IInv, NEW s \in Sessions, StartRefresh(s)
  PROVE  IInv'
<1>1. PICK r \in Records :
        /\ records[r] # None
        /\ records[r].status = "pending"
        /\ Arrive(s, "refresh", "poll", [NoJob EXCEPT !.kind = "refresh", !.appt = records[r].appt])
        /\ pay' = [pay EXCEPT ![s] = [NoPayment EXCEPT !.rec = r, !.read = "pending"]]
  BY DEF StartRefresh
<1> DEFINE work == [NoJob EXCEPT !.kind = "refresh", !.appt = records[r].appt]
           note == [NoPayment EXCEPT !.rec = r, !.read = "pending"]
<1>2. records[r].appt \in Appts /\ appts[records[r].appt] # None
  BY <1>1 DEF IInv, TypeOK, RecordsKnown, RecordRow
<1>3. work \in Job /\ work.target # Pending /\ work.then # "decide" /\ work.appt = records[r].appt
  BY NoJobType, <1>2 DEF Job, Kinds
<1>4. note \in Payment /\ note.rec = r /\ note.new = None /\ note.read = "pending"
  BY DEF NoPayment, Payment, PaymentStatuses
<1>5. pc'[s] = "poll" /\ job'[s] = work /\ ctx'[s] = TRUE /\ pay'[s] = note
  BY <1>1 DEF Arrive, Goto, IInv, TypeOK
<1>6. TypeOK'
  BY <1>1, <1>3, <1>4 DEF StartRefresh, Arrive, Goto, IInv, TypeOK, Steps, tables
<1> HIDE DEF work, note
<1>7. SessionKnown(s)'
  BY <1>1, <1>2, <1>3, <1>4, <1>5
     DEF SessionKnown, FormKnown, JobKnown, PaymentKnown, VersionKnown, WithAppt, OnRecord, StartRefresh, tables
<1>8. \A t \in Sessions \ {s} : Untouched(t)
  BY <1>1 DEF Untouched, Arrive, Goto, IInv, TypeOK, StartRefresh
<1> QED
  BY <1>4, <1>5, <1>6, <1>7, <1>8, LocalStep DEF Alone, StartRefresh

(* What the provider answers, as the code maps it. *)
LEMMA Mapped ==
  ASSUME NEW st \in ChargeStates
  PROVE  /\ MappedStatus(st) \in PaymentStatuses
         /\ MappedStatus(st) = "approved" => st = "approved"
  BY DEF MappedStatus, ChargeStates, PaymentStatuses

LEMMA StartWebhookStep ==
  ASSUME IInv, NEW s \in Sessions, StartWebhook(s)
  PROVE  IInv'
<1>1. PICK r \in Records :
        /\ charge[r] # None
        /\ pay' = [pay EXCEPT ![s] = [NoPayment EXCEPT !.rec = r, !.answer = MappedStatus(charge[r])]]
  BY DEF StartWebhook
<1> DEFINE work == [NoJob EXCEPT !.kind = "webhook"]
           note == [NoPayment EXCEPT !.rec = r, !.answer = MappedStatus(charge[r])]
<1>2. /\ MappedStatus(charge[r]) \in PaymentStatuses
      /\ MappedStatus(charge[r]) = "approved" => Paid(r)
  BY <1>1, Mapped DEF IInv, TypeOK, Paid
<1>3. work \in Job /\ work.target # Pending /\ work.then # "decide"
  BY NoJobType DEF Job, Kinds
<1>4. note \in Payment /\ note.rec = r /\ note.new = None /\ note.answer = MappedStatus(charge[r])
  BY <1>2 DEF NoPayment, Payment
<1>5. pc'[s] = "load" /\ job'[s] = work /\ pay'[s] = note
  BY <1>1 DEF StartWebhook, Goto, IInv, TypeOK
<1>6. TypeOK'
  BY <1>1, <1>3, <1>4 DEF StartWebhook, Goto, IInv, TypeOK, Steps, tables
<1> HIDE DEF work, note
<1>7. SessionKnown(s)'
  BY <1>1, <1>2, <1>3, <1>4, <1>5, NotNone
     DEF SessionKnown, FormKnown, JobKnown, PaymentKnown, VersionKnown, WithAppt, OnRecord, StartWebhook, Paid
<1>8. \A t \in Sessions \ {s} : Untouched(t)
  BY <1>1 DEF Untouched, Goto, IInv, TypeOK, StartWebhook
<1> QED
  BY <1>4, <1>5, <1>6, <1>7, <1>8, LocalStep DEF Alone, StartWebhook, Querying

-----------------------------------------------------------------------------
(* Steps that read                                                         *)

LEMMA SetTenantContextStep ==
  ASSUME IInv, NEW s \in Sessions, SetTenantContext(s)
  PROVE  IInv'
<1>1. job[s] \in Job /\ job[s].then \in {"charge", "decide", "view", "final"}
  BY DEF SetTenantContext, IInv, SessionKnown, JobKnown, TypeOK, Job
<1>2. AfterThat(job[s].then) \in {"view", "final"}
  BY DEF AfterThat
<1>3. TypeOK'
  BY <1>1, <1>2 DEF SetTenantContext, Goto, IInv, TypeOK, Job, Steps, tables
<1>4. /\ pc'[s] = job[s].then
      /\ job'[s] = [job[s] EXCEPT !.then = AfterThat(job[s].then)]
      /\ ctx'[s] = TRUE
      /\ pay'[s] = pay[s]
      /\ form'[s] = form[s]
  BY DEF SetTenantContext, Goto, IInv, TypeOK
<1>5. /\ job'[s].target = job[s].target
      /\ job'[s].appt = job[s].appt
      /\ job'[s].by = job[s].by
      /\ job'[s].then \in {"view", "final"}
  BY <1>1, <1>2, <1>4 DEF Job
<1>6. SessionKnown(s) /\ pc[s] = "context" /\ pay[s].new = None
  BY DEF IInv, SetTenantContext, SessionKnown, VersionKnown
<1>7. SessionKnown(s)'
  BY <1>1, <1>4, <1>5, <1>6
     DEF SessionKnown, FormKnown, JobKnown, PaymentKnown, VersionKnown, WithAppt, OnRecord,
         SetTenantContext, tables
<1>8. \A t \in Sessions \ {s} : Untouched(t)
  BY DEF Untouched, Goto, IInv, TypeOK, SetTenantContext
<1> QED
  BY <1>3, <1>4, <1>6, <1>7, <1>8, LocalStep DEF Alone, SetTenantContext

LEMMA FindOrCreateClientStep ==
  ASSUME IInv, NEW s \in Sessions, FindOrCreateClient(s)
  PROVE  IInv'
<1>1. PICK c \in Clients : form' = [form EXCEPT ![s].client = c]
  BY DEF FindOrCreateClient
<1>2. SessionKnown(s) /\ pc[s] = "client" /\ form[s] \in Booking /\ pay[s].new = None
  BY DEF IInv, FindOrCreateClient, SessionKnown, FormKnown, VersionKnown
<1>3. form'[s] \in Booking /\ form'[s].client = c
  BY <1>1, <1>2 DEF IInv, TypeOK, Booking
<1>4. TypeOK'
  BY <1>1, <1>3 DEF FindOrCreateClient, Goto, IInv, TypeOK, Steps, tables
<1>5. pc'[s] = "create" /\ ctx'[s] = ctx[s] /\ ctx[s] = TRUE /\ pay'[s] = pay[s] /\ job'[s] = job[s]
  BY <1>2 DEF FindOrCreateClient, Goto, IInv, TypeOK, ContextSet, Querying
<1>6. SessionKnown(s)'
  BY <1>2, <1>3, <1>5
     DEF SessionKnown, FormKnown, JobKnown, PaymentKnown, VersionKnown, WithAppt, OnRecord
<1>7. \A t \in Sessions \ {s} : Untouched(t)
  BY <1>1 DEF Untouched, Goto, IInv, TypeOK, FindOrCreateClient
<1> QED
  BY <1>2, <1>4, <1>5, <1>6, <1>7, LocalStep DEF Alone, FindOrCreateClient

LEMMA InsertRecordStep ==
  ASSUME IInv, NEW s \in Sessions, InsertRecord(s)
  PROVE  IInv'
<1>1. PICK r \in Records :
        /\ FreshRecord(r)
        /\ pay' = [pay EXCEPT ![s] = [NoPayment EXCEPT !.rec = r, !.new = "pending",
                                        !.waiting = appts[job[s].appt].status = Pending]]
  BY DEF InsertRecord
<1> DEFINE note == [NoPayment EXCEPT !.rec = r, !.new = "pending",
                                     !.waiting = appts[job[s].appt].status = Pending]
<1>2. /\ note \in Payment
      /\ note.rec = r
      /\ note.new = "pending"
      /\ note.waiting = (appts[job[s].appt].status = Pending)
  BY DEF NoPayment, Payment, PaymentStatuses
<1>3. pc'[s] = "provider" /\ pay'[s] = note /\ ctx'[s] = ctx[s] /\ job'[s] = job[s]
  BY <1>1 DEF InsertRecord, Goto, IInv, TypeOK
<1>4. SessionKnown(s) /\ pc[s] = "charge" /\ ctx[s] = TRUE
  BY DEF IInv, TypeOK, InsertRecord, ContextSet, Querying
<1>5. TypeOK'
  BY <1>1, <1>2 DEF InsertRecord, Goto, IInv, TypeOK, Steps, tables
<1> HIDE DEF note
<1>6. SessionKnown(s)'
  <2>1. /\ job[s].appt \in Appts /\ appts[job[s].appt] # None
        /\ appts' = appts /\ records' = records /\ charge' = charge
        /\ records[r] = None /\ charge[r] = None
    BY <1>1, <1>4 DEF SessionKnown, JobKnown, WithAppt, InsertRecord, FreshRecord, tables
  <2>2. FormKnown(s)' /\ JobKnown(s)'
    BY <1>3, <1>4, <2>1 DEF SessionKnown, FormKnown, JobKnown, WithAppt
  <2>3. PaymentKnown(s)'
    BY <1>1, <1>2, <1>3, <2>1, NotNone DEF PaymentKnown, OnRecord, PaymentStatuses
  <2>4. VersionKnown(s)'
    BY <1>2, <1>3, <2>1 DEF VersionKnown
  <2> QED
    BY <2>2, <2>3, <2>4 DEF SessionKnown
<1>7. \A t \in Sessions \ {s} : Untouched(t)
  BY <1>1 DEF Untouched, Goto, IInv, TypeOK, InsertRecord
<1>8. Alone(s)
  BY <1>1, <1>2, <1>3 DEF Alone, HoldsRecord, FreshRecord
<1> QED
  BY <1>3, <1>4, <1>5, <1>6, <1>7, <1>8, LocalStep DEF InsertRecord

LEMMA DecideStep ==
  ASSUME IInv, NEW s \in Sessions, Decide(s)
  PROVE  IInv'
<1>1. pc[s] = "decide" /\ pc'[s] = "transition" /\ ctx[s] = TRUE /\ SessionKnown(s)
  BY DEF Decide, Goto, IInv, TypeOK, ContextSet, Querying
<1>2. TypeOK'
  BY DEF Decide, Goto, IInv, TypeOK, Steps, tables
<1>3. SessionKnown(s)'
  BY <1>1 DEF SessionKnown, FormKnown, JobKnown, PaymentKnown, VersionKnown, WithAppt, OnRecord, Decide, tables, Paid
<1>4. \A t \in Sessions \ {s} : Untouched(t)
  BY DEF Untouched, Goto, IInv, TypeOK, Decide
<1>5. Alone(s)
  BY <1>1 DEF Alone, HoldsRecord, IInv, OneWriter, SessionKnown, VersionKnown, Decide
<1> QED
  BY <1>1, <1>2, <1>3, <1>4, <1>5, LocalStep DEF Decide

LEMMA ReadPaymentsStep ==
  ASSUME IInv, NEW s \in Sessions, ReadPayments(s)
  PROVE  IInv'
<1>1. /\ pc[s] = "view" /\ ctx[s] = TRUE /\ SessionKnown(s)
      /\ pay[s] \in Payment /\ job[s] \in Job /\ pay[s].new = None
  BY DEF ReadPayments, IInv, TypeOK, ContextSet, Querying, SessionKnown, VersionKnown
<1>2. /\ job'[s] = [job[s] EXCEPT !.by = "payment_provider"]
      /\ job'[s] \in Job
      /\ job'[s].target = job[s].target
      /\ job'[s].appt = job[s].appt
      /\ job'[s].then = job[s].then
      /\ job[s].then # "decide"
  BY <1>1 DEF ReadPayments, IInv, TypeOK, Job, Actors, SessionKnown, JobKnown
<1>3. \A t \in Sessions \ {s} : Untouched(t)
  BY DEF Untouched, Goto, IInv, TypeOK, ReadPayments
<1>4. CASE \E r \in RecordsOf(job[s].appt) : \E st \in LoadedStatuses(s, r) :
              /\ pay' = [pay EXCEPT ![s] = [NoPayment EXCEPT !.rec = r, !.read = st, !.answer = st]]
              /\ Goto(s, IF st = "pending" THEN "poll" ELSE "final")
  <2>0. PICK r \in Records : \E st \in LoadedStatuses(s, r) :
          /\ records[r] # None /\ records[r].appt = job[s].appt
          /\ pay' = [pay EXCEPT ![s] = [NoPayment EXCEPT !.rec = r, !.read = st, !.answer = st]]
          /\ Goto(s, IF st = "pending" THEN "poll" ELSE "final")
    BY <1>4 DEF RecordsOf
  <2>1. PICK st \in LoadedStatuses(s, r) :
          /\ records[r] # None /\ records[r].appt = job[s].appt
          /\ pay' = [pay EXCEPT ![s] = [NoPayment EXCEPT !.rec = r, !.read = st, !.answer = st]]
          /\ Goto(s, IF st = "pending" THEN "poll" ELSE "final")
    BY <2>0
  <2> DEFINE note == [NoPayment EXCEPT !.rec = r, !.read = st, !.answer = st]
  <2>2. st \in PaymentStatuses \cup {None}
    BY <1>1, <2>1 DEF LoadedStatuses, IInv, TypeOK, RecordRow, Payment
  <2>3. note \in Payment /\ note.rec = r /\ note.new = None /\ note.read = st
    BY <2>2 DEF NoPayment, Payment
  <2>4. /\ pay'[s] = note /\ pc'[s] \in {"poll", "final"}
        /\ pc'[s] = "poll" => note.read = "pending"
    BY <2>1, <2>3 DEF Goto, IInv, TypeOK
  <2>5. TypeOK'
    BY <1>2, <2>1, <2>3 DEF ReadPayments, Goto, IInv, TypeOK, Steps, tables
  <2> HIDE DEF note
  <2>6. SessionKnown(s)'
    BY <1>1, <1>2, <2>1, <2>3, <2>4
       DEF SessionKnown, FormKnown, JobKnown, PaymentKnown, VersionKnown, WithAppt, OnRecord, ReadPayments, tables
  <2> QED
    BY <1>1, <1>3, <2>3, <2>4, <2>5, <2>6, LocalStep DEF ReadPayments, Alone
<1>5. CASE pay' = [pay EXCEPT ![s] = NoPayment] /\ Goto(s, "final")
  <2>1. NoPayment \in Payment /\ NoPayment.new = None
    BY DEF NoPayment, Payment
  <2>2. pay'[s] = NoPayment /\ pc'[s] = "final"
    BY <1>5 DEF Goto, IInv, TypeOK
  <2>3. TypeOK'
    BY <1>2, <1>5, <2>1 DEF ReadPayments, Goto, IInv, TypeOK, Steps, tables
  <2>4. SessionKnown(s)'
    BY <1>1, <1>2, <2>1, <2>2
       DEF SessionKnown, FormKnown, JobKnown, PaymentKnown, VersionKnown, WithAppt, OnRecord, ReadPayments, tables
  <2> QED
    BY <1>1, <1>3, <2>1, <2>2, <2>3, <2>4, LocalStep DEF ReadPayments, Alone
<1> QED
  BY <1>4, <1>5 DEF ReadPayments

LEMMA PollProviderStep ==
  ASSUME IInv, NEW s \in Sessions, PollProvider(s)
  PROVE  IInv'
<1> DEFINE r == pay[s].rec
<1>1. /\ pc[s] = "poll" /\ ctx[s] = TRUE /\ SessionKnown(s)
      /\ pay[s] \in Payment /\ pay[s].new = None /\ pay[s].read = "pending"
      /\ r \in Records /\ records[r] # None /\ charge[r] \in ChargeStates
      /\ charge[r] # None /\ records[r].appt = job[s].appt
  BY DEF PollProvider, IInv, TypeOK, ContextSet, Querying, SessionKnown, VersionKnown, PaymentKnown,
         OnRecord, RecordsKnown
<1>2. /\ MappedStatus(charge[r]) \in PaymentStatuses
      /\ MappedStatus(charge[r]) = "approved" => Paid(r)
  BY <1>1, Mapped DEF Paid
<1>3. /\ pay'[s] = [pay[s] EXCEPT !.answer = MappedStatus(charge[r])]
      /\ pc'[s] = "apply" /\ ctx'[s] = ctx[s] /\ job'[s] = job[s] /\ form'[s] = form[s]
  BY DEF PollProvider, Goto, IInv, TypeOK
<1>4. /\ pay'[s] \in Payment
      /\ pay'[s].rec = r
      /\ pay'[s].new = None
      /\ pay'[s].read = "pending"
      /\ pay'[s].answer = MappedStatus(charge[r])
  BY <1>1, <1>2, <1>3 DEF Payment
<1>5. TypeOK'
  BY <1>3, <1>4 DEF PollProvider, Goto, IInv, TypeOK, Steps, tables
<1>6. appts' = appts /\ records' = records /\ charge' = charge
  BY DEF PollProvider, tables
<1>7. SessionKnown(s)'
  <2>1. FormKnown(s)' /\ JobKnown(s)'
    BY <1>1, <1>3, <1>6 DEF SessionKnown, FormKnown, JobKnown, WithAppt
  <2>2. MappedStatus(charge[r]) # None
    BY <1>2, NotNone
  <2>3. PaymentKnown(s)'
    BY <1>1, <1>2, <1>3, <1>4, <1>6, <2>2 DEF PaymentKnown, OnRecord, Paid
  <2>4. VersionKnown(s)'
    BY <1>4 DEF VersionKnown
  <2> QED
    BY <2>1, <2>3, <2>4 DEF SessionKnown
<1>8. \A t \in Sessions \ {s} : Untouched(t)
  BY DEF Untouched, Goto, IInv, TypeOK, PollProvider
<1> QED
  BY <1>1, <1>3, <1>4, <1>5, <1>7, <1>8, LocalStep DEF PollProvider, Alone

LEMMA LoadRecordStep ==
  ASSUME IInv, NEW s \in Sessions, LoadRecord(s)
  PROVE  IInv'
<1> DEFINE r == pay[s].rec
<1>1. /\ pc[s] = "load" /\ SessionKnown(s) /\ pay[s] \in Payment /\ job[s] \in Job /\ pay[s].new = None
      /\ r \in Records /\ records[r] # None /\ records[r] \in RecordRow /\ appts[records[r].appt] # None
      /\ records[r].status = "approved" => appts[records[r].appt].status # Pending
  BY DEF LoadRecord, IInv, TypeOK, SessionKnown, VersionKnown, PaymentKnown, OnRecord, RecordsKnown,
         PaidIsConfirmed
<1>2. /\ pay'[s] = [pay[s] EXCEPT !.read = records[r].status]
      /\ job'[s] = [job[s] EXCEPT !.appt = records[r].appt]
      /\ pc'[s] = "apply" /\ ctx'[s] = TRUE /\ form'[s] = form[s]
  BY DEF LoadRecord, Goto, IInv, TypeOK
<1>3. /\ pay'[s] \in Payment
      /\ pay'[s].rec = r
      /\ pay'[s].new = None
      /\ pay'[s].read = records[r].status
      /\ pay'[s].answer = pay[s].answer
  BY <1>1, <1>2 DEF Payment, RecordRow
<1>4. /\ job'[s] \in Job
      /\ job'[s].appt = records[r].appt
      /\ job'[s].target = job[s].target
      /\ job'[s].then = job[s].then
  BY <1>1, <1>2 DEF Job, RecordRow
<1>5. TypeOK'
  BY <1>3, <1>4 DEF LoadRecord, Goto, IInv, TypeOK, Steps, tables
<1>6. appts' = appts /\ records' = records /\ charge' = charge
  BY DEF LoadRecord, tables
<1>7. SessionKnown(s)'
  BY <1>1, <1>2, <1>3, <1>4, <1>6
     DEF SessionKnown, FormKnown, JobKnown, PaymentKnown, VersionKnown, WithAppt, OnRecord, Paid, RecordRow
<1>8. \A t \in Sessions \ {s} : Untouched(t)
  BY DEF Untouched, Goto, IInv, TypeOK, LoadRecord
<1> QED
  BY <1>2, <1>3, <1>5, <1>7, <1>8, LocalStep DEF LoadRecord, Alone

LEMMA ApplyStatusStep ==
  ASSUME IInv, NEW s \in Sessions, ApplyStatus(s)
  PROVE  IInv'
<1> DEFINE r == pay[s].rec
           answer == pay[s].answer
           writes == answer # pay[s].read \/ answer = "approved"
           version == IF answer # pay[s].read THEN answer ELSE records[r].status
<1>1. /\ pc[s] = "apply" /\ ctx[s] = TRUE /\ SessionKnown(s) /\ pay[s] \in Payment /\ pay[s].new = None
      /\ r \in Records /\ records[r] # None /\ records[r].appt = job[s].appt
      /\ records[r].status \in PaymentStatuses
      /\ charge[r] # None /\ answer \in PaymentStatuses
      /\ answer = "approved" => Paid(r)
      /\ records[r].status = "approved" => appts[job[s].appt].status # Pending
      /\ pay[s].read = "approved" => appts[job[s].appt].status # Pending
  BY DEF ApplyStatus, IInv, TypeOK, ContextSet, Querying, SessionKnown, VersionKnown, PaymentKnown, OnRecord,
         RecordsKnown, PaidIsConfirmed, RecordRow, Payment
<1>2. /\ pc'[s] = IF answer = "approved" THEN "see" ELSE "commit"
      /\ ctx'[s] = ctx[s] /\ job'[s] = job[s] /\ form'[s] = form[s]
      /\ appts' = appts /\ records' = records /\ charge' = charge
  BY DEF ApplyStatus, Goto, IInv, TypeOK, tables
<1>3. pay' = IF writes THEN [pay EXCEPT ![s].new = version] ELSE pay
  BY DEF ApplyStatus
<1>4. version \in PaymentStatuses
  BY <1>1
<1>5. /\ pay'[s] \in Payment
      /\ pay'[s].rec = r
      /\ pay'[s].answer = answer
      /\ pay'[s].new = IF writes THEN version ELSE None
  BY <1>1, <1>3, <1>4 DEF Payment, IInv, TypeOK
<1>6. TypeOK'
  BY <1>3, <1>5 DEF ApplyStatus, Goto, IInv, TypeOK, Steps, tables
<1>7. SessionKnown(s)'
  <2>1. FormKnown(s)' /\ JobKnown(s)'
    BY <1>1, <1>2 DEF SessionKnown, FormKnown, JobKnown, WithAppt
  <2>2. PaymentKnown(s)'
    <3>1. pc'[s] = "commit" => pay'[s].new # "approved"
      BY <1>2, <1>5, NotNone DEF PaymentStatuses
    <3>2. pc'[s] = "see" => answer = "approved" /\ pay'[s].new # None
      BY <1>2, <1>4, <1>5, NotNone
    <3>7. pc'[s] = "see" /\ pay'[s].new # "approved" => appts'[job'[s].appt].status # Pending
      BY <1>1, <1>2, <1>5
    <3>3. r \in Records /\ records'[r] # None /\ records'[r].appt = job'[s].appt
      BY <1>1, <1>2
    <3>4. pc'[s] \in {"see", "commit"}
      BY <1>2
    <3>5. answer = "approved" => charge'[r] \in {"approved", "refunded"}
      BY <1>1, <1>2 DEF Paid
    <3>6. pay'[s].rec = r /\ pay'[s].answer = answer
      BY <1>5
    <3> HIDE DEF writes, version
    <3> QED
      BY <3>1, <3>2, <3>3, <3>4, <3>5, <3>6, <3>7 DEF PaymentKnown, OnRecord, Paid
  <2>3. VersionKnown(s)'
    BY <1>1, <1>2, <1>5 DEF VersionKnown
  <2> QED
    BY <2>1, <2>2, <2>3 DEF SessionKnown
<1>8. \A t \in Sessions \ {s} : Untouched(t)
  BY <1>3 DEF Untouched, Goto, IInv, TypeOK, ApplyStatus
<1>9. Alone(s)
  BY <1>5 DEF ApplyStatus, Alone
<1> QED
  BY <1>1, <1>2, <1>6, <1>7, <1>8, <1>9, LocalStep DEF ApplyStatus

LEMMA SeeAppointmentStep ==
  ASSUME IInv, NEW s \in Sessions, SeeAppointment(s)
  PROVE  IInv'
<1>1. pc[s] = "see" /\ ctx[s] = TRUE /\ SessionKnown(s)
  BY DEF SeeAppointment, IInv, TypeOK, ContextSet, Querying
<1>2. /\ pc'[s] = IF appts[job[s].appt].status = Pending THEN "decide" ELSE "commit"
      /\ UNCHANGED <<appts, records, charge, pay, job, form, ctx>>
  BY DEF SeeAppointment, Goto, IInv, TypeOK, tables
<1>3. TypeOK'
  BY DEF SeeAppointment, Goto, IInv, TypeOK, Steps, tables
<1>4. SessionKnown(s)'
  BY <1>1, <1>2
     DEF SessionKnown, FormKnown, JobKnown, PaymentKnown, VersionKnown, WithAppt, OnRecord, Paid
<1>5. \A t \in Sessions \ {s} : Untouched(t)
  BY DEF Untouched, Goto, IInv, TypeOK, SeeAppointment
<1>6. Alone(s)
  BY <1>1, <1>2 DEF Alone, HoldsRecord, IInv, OneWriter, SessionKnown, VersionKnown
<1> QED
  BY <1>1, <1>2, <1>3, <1>4, <1>5, <1>6, LocalStep DEF SeeAppointment

-----------------------------------------------------------------------------
(* Steps that store                                                        *)

(* A request that goes on after a commit has the tenant setting still to be *)
(* set again, and holds no version.                                         *)
LEMMA Resumed ==
  ASSUME IInv, NEW s \in Sessions, Resume(s), job' \in [Sessions -> Job],
         \A t \in Sessions \ {s} : job'[t] = job[t],
         job'[s].then # "idle", job'[s].target # Pending,
         job'[s].appt \in Appts, appts'[job'[s].appt] # None,
         job'[s].then = "decide" => job'[s].by # "payment_provider"
  PROVE  /\ pc' \in [Sessions -> Steps]
         /\ ctx' \in [Sessions -> BOOLEAN]
         /\ job' \in [Sessions -> Job]
         /\ form' \in [Sessions -> Booking \cup Edit \cup {None}]
         /\ pay' \in [Sessions -> Payment]
         /\ SessionKnown(s)'
         /\ pay'[s].new = None
         /\ pc'[s] \notin Querying
         /\ \A t \in Sessions \ {s} : Untouched(t)
<1>1. /\ pay[s] \in Payment
      /\ pay'[s] = [pay[s] EXCEPT !.new = None,
                                  !.read = IF pay[s].rec = None THEN None ELSE pay[s].answer]
  BY DEF Resume, IInv, TypeOK
<1>2. pay'[s] \in Payment /\ pay'[s].new = None
  BY <1>1 DEF Payment
<1>3. pc'[s] = "context" /\ pay' \in [Sessions -> Payment]
  BY <1>2 DEF Resume, Goto, IInv, TypeOK
<1>4. /\ pc' \in [Sessions -> Steps]
      /\ ctx' \in [Sessions -> BOOLEAN]
      /\ form' \in [Sessions -> Booking \cup Edit \cup {None}]
  BY DEF Resume, Goto, IInv, TypeOK, Steps
<1>5. SessionKnown(s)'
  BY <1>2, <1>3 DEF SessionKnown, FormKnown, JobKnown, PaymentKnown, VersionKnown, WithAppt, OnRecord
<1>6. \A t \in Sessions \ {s} : Untouched(t)
  BY DEF Untouched, Resume, Goto, IInv, TypeOK
<1> QED
  BY <1>2, <1>3, <1>4, <1>5, <1>6 DEF Querying

(* The commit of a transition or of a record: the request is closed or goes *)
(* on.                                                                      *)
LEMMA Committed ==
  ASSUME IInv, NEW s \in Sessions, ContinueOrClose(s), pc[s] \in {"transition", "commit"},
         \A a \in Appts : appts[a] # None => appts'[a] # None
  PROVE  /\ pc' \in [Sessions -> Steps]
         /\ ctx' \in [Sessions -> BOOLEAN]
         /\ job' \in [Sessions -> Job]
         /\ form' \in [Sessions -> Booking \cup Edit \cup {None}]
         /\ pay' \in [Sessions -> Payment]
         /\ SessionKnown(s)'
         /\ pay'[s].new = None
         /\ pc'[s] \notin Querying
         /\ \A t \in Sessions \ {s} : Untouched(t)
<1>1. CASE job[s].then = "idle"
  BY <1>1, Closed DEF ContinueOrClose, IInv, Querying
<1>2. CASE job[s].then # "idle"
  <2>1. Resume(s) /\ job' = job
    BY <1>2 DEF ContinueOrClose
  <2>2. /\ job[s].target # Pending /\ job[s].then # "decide"
        /\ job[s].appt \in Appts /\ appts'[job[s].appt] # None
    BY DEF IInv, SessionKnown, JobKnown, WithAppt
  <2>3. job' \in [Sessions -> Job]
    BY <2>1 DEF IInv, TypeOK
  <2> QED
    BY <1>2, <2>1, <2>2, <2>3, Resumed
<1> QED
  BY <1>1, <1>2

(* What the commit does to the payment records. *)
LEMMA RecordCommitted ==
  ASSUME IInv, NEW s \in Sessions, pc[s] \in {"transition", "commit"}, records' = WithRecord(s),
         charge' = charge
  PROVE  /\ records' \in [Records -> RecordRow \cup {None}]
         /\ \A r \in Records :
              records'[r] = records[r]
              \/ /\ pay[s].new # None /\ r = pay[s].rec
                 /\ records'[r].appt = job[s].appt /\ records'[r].status = pay[s].new
         /\ pay[s].new # None =>
              /\ pay[s].rec \in Records
              /\ records'[pay[s].rec] # None
              /\ records'[pay[s].rec].appt = job[s].appt
         /\ \A r \in Records : records[r] # None =>
              records'[r] # None /\ records'[r].appt = records[r].appt
         /\ \A r \in Records : records'[r] # None => charge'[r] # None
         /\ \A t \in Sessions \ {s} : KeepsFresh(t)
<1>1. /\ pay[s] \in Payment /\ SessionKnown(s)
      /\ job[s].appt \in Appts
      /\ records \in [Records -> RecordRow \cup {None}]
  BY DEF IInv, TypeOK, SessionKnown, JobKnown, WithAppt
<1>2. CASE pay[s].new = None
  BY <1>1, <1>2 DEF WithRecord, KeepsFresh, IInv, RecordsKnown, SessionKnown, PaymentKnown
<1>3. CASE pay[s].new # None
  <2> DEFINE q == pay[s].rec
             row == [appt |-> job[s].appt, status |-> pay[s].new]
  <2>1. row \in RecordRow /\ row.appt = job[s].appt /\ row.status = pay[s].new
    BY <1>1, <1>3 DEF RecordRow, Payment
  <2>2. row # None
    BY <2>1, NoneAssumption
  <2>3. /\ q \in Records /\ charge[q] # None
        /\ records[q] # None => records[q].appt = job[s].appt
    BY <1>1, <1>3 DEF SessionKnown, VersionKnown
  <2>4. records' = [records EXCEPT ![q] = row]
    BY <1>3 DEF WithRecord
  <2>5. \A t \in Sessions \ {s} : pay[t].new # None => pay[t].rec # q /\ pay[t].rec \in Records
    BY <1>3, <2>3 DEF IInv, OneWriter, HoldsRecord, SessionKnown, VersionKnown
  <2> HIDE DEF q, row
  <2>6. records'[q] = row /\ \A r \in Records \ {q} : records'[r] = records[r]
    BY <1>1, <2>3, <2>4
  <2>7. records' \in [Records -> RecordRow \cup {None}]
    BY <1>1, <2>1, <2>4
  <2>8. \A t \in Sessions \ {s} : KeepsFresh(t)
    BY <2>5, <2>6 DEF KeepsFresh, IInv, SessionKnown, PaymentKnown
  <2>9. \A r \in Records : records'[r] # None => charge'[r] # None
    BY <2>3, <2>6 DEF IInv, RecordsKnown
  <2>10. q = pay[s].rec
    BY DEF q
  <2> QED
    BY <1>3, <2>1, <2>2, <2>3, <2>6, <2>7, <2>8, <2>9, <2>10
<1> QED
  BY <1>2, <1>3

LEMMA CreateAppointmentStep ==
  ASSUME IInv, NEW s \in Sessions, CreateAppointment(s)
  PROVE  IInv'
<1>1. /\ pc[s] = "create" /\ form[s] \in Booking /\ form[s].client \in Clients
      /\ form[s].phone \in Phones /\ form[s].slot \in Slots
  BY DEF CreateAppointment, IInv, SessionKnown, FormKnown, Booking
<1>2. PICK a \in Appts :
        /\ appts[a] = None
        /\ appts' = [appts EXCEPT ![a] = [client |-> form[s].client, slot |-> form[s].slot,
                                          status |-> Pending, by |-> {}]]
        /\ job' = [job EXCEPT ![s] =
             [kind   |-> "book",
              appt   |-> a,
              target |-> Confirmed,
              by     |-> IF service.required THEN "payment_provider" ELSE "public_booking_auto_confirm",
              then   |-> IF service.required THEN "charge"
                         ELSE IF form[s].auto THEN "decide" ELSE "view"]]
  BY DEF CreateAppointment
<1> DEFINE row == [client |-> form[s].client, slot |-> form[s].slot, status |-> Pending, by |-> {}]
           work == [kind   |-> "book",
                    appt   |-> a,
                    target |-> Confirmed,
                    by     |-> IF service.required THEN "payment_provider" ELSE "public_booking_auto_confirm",
                    then   |-> IF service.required THEN "charge"
                               ELSE IF form[s].auto THEN "decide" ELSE "view"]
<1>3. row \in ApptRow /\ row.by = {}
  BY <1>1 DEF ApptRow, Statuses, Pending
<1>4. row # None
  BY <1>3, NoneAssumption
<1>5. /\ work \in Job /\ work.appt = a /\ work.target # Pending /\ work.then # "idle"
      /\ work.then = "decide" => work.by # "payment_provider"
  BY DEF Job, Kinds, Actors, Statuses, Confirmed, Pending
<1>6. appts' = [appts EXCEPT ![a] = row] /\ job' = [job EXCEPT ![s] = work]
  BY <1>2
<1> HIDE DEF row, work
<1>7. /\ appts'[a] = row /\ appts' \in [Appts -> ApptRow \cup {None}]
      /\ \A b \in Appts \ {a} : appts'[b] = appts[b]
      /\ job' \in [Sessions -> Job] /\ job'[s] = work
      /\ \A t \in Sessions \ {s} : job'[t] = job[t]
  BY <1>3, <1>5, <1>6 DEF IInv, TypeOK
<1>8. Resume(s) /\ UNCHANGED <<records, service, charge, page, faults>>
  BY DEF CreateAppointment
<1>9. clients' \in [Clients -> Phones \cup {None}]
  BY <1>1 DEF CreateAppointment, IInv, TypeOK
<1>10. /\ pc' \in [Sessions -> Steps]
       /\ ctx' \in [Sessions -> BOOLEAN]
       /\ form' \in [Sessions -> Booking \cup Edit \cup {None}]
       /\ pay' \in [Sessions -> Payment]
       /\ SessionKnown(s)'
       /\ pay'[s].new = None
       /\ pc'[s] \notin Querying
       /\ \A t \in Sessions \ {s} : Untouched(t)
  BY <1>4, <1>5, <1>7, <1>8, Resumed
<1>11. TypeOK'
  BY <1>7, <1>8, <1>9, <1>10 DEF IInv, TypeOK
<1>12. Onward
  BY <1>2, <1>4, <1>7, <1>8 DEF Onward, Paid
<1>13. Ledger'
  <2>0. \A b \in Appts : appts[b] # None => appts'[b] # None
    BY <1>4, <1>7
  <2>1. RecordsKnown' /\ PagesKnown'
    BY <1>8, <2>0 DEF IInv, TypeOK, RecordRow, RecordsKnown, PagesKnown
  <2>2. PaidIsConfirmed'
    BY <1>2, <1>7, <1>8 DEF IInv, PaidIsConfirmed, RecordsKnown
  <2>3. PaymentConfirmsPaid'
    <3>1. records' = records /\ charge' = charge
      BY <1>8
    <3>2. \A b \in Appts : appts'[b] # None /\ "payment_provider" \in appts'[b].by =>
            appts[b] # None /\ "payment_provider" \in appts[b].by
      BY <1>3, <1>7
    <3> QED
      BY <3>1, <3>2 DEF IInv, PaymentConfirmsPaid, RecordsOf
  <2> QED
    BY <2>1, <2>2, <2>3 DEF Ledger
<1>14. \A t \in Sessions \ {s} : KeepsFresh(t)
  BY <1>8 DEF KeepsFresh, IInv, SessionKnown, PaymentKnown
<1> QED
  BY <1>10, <1>11, <1>12, <1>13, <1>14, SessionStep DEF Alone

LEMMA ChargeCreatedStep ==
  ASSUME IInv, NEW s \in Sessions, ChargeCreated(s)
  PROVE  IInv'
<1> DEFINE r == pay[s].rec
<1>1. PICK answer \in PaymentStatuses :
        /\ charge' = [charge EXCEPT ![r] = answer]
        /\ pay' = [pay EXCEPT ![s].answer = answer, ![s].new = answer]
        /\ Goto(s, IF answer = "approved" /\ pay[s].waiting THEN "decide" ELSE "commit")
  BY DEF ChargeCreated
<1>2. /\ pc[s] = "provider" /\ ctx[s] = TRUE /\ SessionKnown(s) /\ pay[s] \in Payment
      /\ r \in Records /\ records[r] = None /\ charge[r] = None /\ pay[s].new # None
      /\ job[s].appt \in Appts /\ appts[job[s].appt] # None
      /\ ~pay[s].waiting => appts[job[s].appt].status # Pending
  BY <1>1 DEF ChargeCreated, IInv, TypeOK, SessionKnown, PaymentKnown, JobKnown, WithAppt, OnRecord
<1>3. /\ pay'[s] = [pay[s] EXCEPT !.answer = answer, !.new = answer]
      /\ pc'[s] = IF answer = "approved" /\ pay[s].waiting THEN "decide" ELSE "commit"
      /\ ctx'[s] = ctx[s] /\ job'[s] = job[s] /\ form'[s] = form[s]
      /\ UNCHANGED <<appts, clients, records, service, page>>
  BY <1>1 DEF ChargeCreated, Goto, IInv, TypeOK, tables
<1>4. pay'[s] \in Payment /\ pay'[s].rec = r /\ pay'[s].new = answer
  BY <1>2, <1>3 DEF Payment
<1>5. /\ charge'[r] = answer /\ charge'[r] \in ChargeStates /\ charge'[r] # None
      /\ \A q \in Records \ {r} : charge'[q] = charge[q]
  BY <1>1, <1>2, NotNone DEF IInv, TypeOK, PaymentStatuses, ChargeStates
<1>6. TypeOK'
  <2>1. charge' \in [Records -> ChargeStates \cup {None}]
    BY <1>1, <1>2, <1>5 DEF IInv, TypeOK
  <2>2. pay' \in [Sessions -> Payment]
    BY <1>1, <1>3, <1>4 DEF IInv, TypeOK
  <2> QED
    BY <2>1, <2>2, <1>1 DEF ChargeCreated, Goto, IInv, TypeOK, Steps, tables
<1>7. SessionKnown(s)'
  <2>1. FormKnown(s)' /\ JobKnown(s)'
    BY <1>2, <1>3 DEF SessionKnown, FormKnown, JobKnown, WithAppt
  <2>2. PaymentKnown(s)'
    BY <1>2, <1>3, <1>4, <1>5, NotNone DEF PaymentKnown, OnRecord, Paid
  <2>3. VersionKnown(s)'
    BY <1>2, <1>3, <1>4, <1>5 DEF VersionKnown
  <2> QED
    BY <2>1, <2>2, <2>3 DEF SessionKnown
<1>8. Onward
  BY <1>2, <1>3, <1>5, NotNone DEF Onward, Paid, ChargeStates
<1>9. Ledger'
  <2>1. \A q \in Records : Paid(q) => Paid(q)'
    BY <1>8 DEF Onward
  <2>2. RecordsKnown' /\ PagesKnown' /\ PaidIsConfirmed'
    BY <1>2, <1>3, <1>5 DEF IInv, RecordsKnown, PagesKnown, PaidIsConfirmed
  <2>3. PaymentConfirmsPaid'
    BY <1>3, <2>1 DEF IInv, PaymentConfirmsPaid, RecordsOf, Paid
  <2> QED
    BY <2>2, <2>3 DEF Ledger
<1>10. \A t \in Sessions \ {s} : Untouched(t)
  BY <1>1 DEF Untouched, Goto, IInv, TypeOK, ChargeCreated
<1>11. \A t \in Sessions \ {s} : pay[t].new # None => pay[t].rec # r /\ pay[t].rec \in Records
  BY <1>2 DEF IInv, OneWriter, HoldsRecord, SessionKnown, VersionKnown
<1>12. \A t \in Sessions \ {s} : KeepsFresh(t)
  BY <1>3, <1>5, <1>11 DEF KeepsFresh, IInv, SessionKnown, PaymentKnown
<1>13. Alone(s)
  BY <1>4, <1>11 DEF Alone, HoldsRecord
<1> HIDE DEF r
<1> QED
  BY <1>2, <1>3, <1>6, <1>7, <1>8, <1>9, <1>10, <1>12, <1>13, SessionStep

(* A request that ends with its call or its connection lost: the provider   *)
(* may be left with a charge nobody knows of.                               *)
LEMMA ChargeFailsStep ==
  ASSUME IInv, NEW s \in Sessions, ChargeFails(s)
  PROVE  IInv'
<1> DEFINE r == pay[s].rec
<1>1. PICK left \in {None, "pending"} : charge' = [charge EXCEPT ![r] = left]
  BY DEF ChargeFails
<1>2. pc[s] = "provider" /\ r \in Records /\ charge[r] = None /\ records[r] = None /\ pay[s].new # None
  BY DEF ChargeFails, IInv, SessionKnown, PaymentKnown, OnRecord
<1>3. /\ charge' \in [Records -> ChargeStates \cup {None}]
      /\ \A q \in Records \ {r} : charge'[q] = charge[q]
  BY <1>1, <1>2 DEF IInv, TypeOK, ChargeStates
<1>4. faults' \in 0..MaxFaults
  BY MaxFaultsAssumption DEF ChargeFails, IInv, TypeOK
<1>5. UNCHANGED <<appts, clients, records, service, page>>
  BY DEF ChargeFails, tables
<1>6. TypeOK'
  BY <1>3, <1>4, <1>5, Closed DEF ChargeFails, IInv, TypeOK
<1>7. Onward
  BY <1>2, <1>3, <1>5, NotNone DEF Onward, Paid, ChargeStates
<1>8. Ledger'
  <2>1. \A q \in Records : Paid(q) => Paid(q)'
    BY <1>7 DEF Onward
  <2>2. RecordsKnown' /\ PagesKnown' /\ PaidIsConfirmed'
    BY <1>2, <1>3, <1>5 DEF IInv, RecordsKnown, PagesKnown, PaidIsConfirmed
  <2>3. PaymentConfirmsPaid'
    BY <1>5, <2>1 DEF IInv, PaymentConfirmsPaid, RecordsOf, Paid
  <2> QED
    BY <2>2, <2>3 DEF Ledger
<1>9. \A t \in Sessions \ {s} : pay[t].new # None => pay[t].rec # r /\ pay[t].rec \in Records
  BY <1>2 DEF IInv, OneWriter, HoldsRecord, SessionKnown, VersionKnown
<1>10. \A t \in Sessions \ {s} : KeepsFresh(t)
  BY <1>3, <1>5, <1>9 DEF KeepsFresh, IInv, SessionKnown, PaymentKnown
<1> HIDE DEF r
<1> QED
  BY <1>6, <1>7, <1>8, <1>10, Closed, SessionStep DEF ChargeFails, IInv, Alone, Querying

LEMMA LoseStep ==
  ASSUME IInv, NEW s \in Sessions, Lose(s)
  PROVE  IInv'
<1>1. faults' \in 0..MaxFaults
  BY MaxFaultsAssumption DEF Lose, IInv, TypeOK
<1>2. TypeOK'
  BY <1>1, Closed DEF Lose, IInv, TypeOK, tables
<1> QED
  BY <1>2, Closed, LocalStep DEF Lose, IInv, Alone, Querying

LEMMA StorePatchStep ==
  ASSUME IInv, NEW s \in Sessions, StorePatch(s)
  PROVE  IInv'
<1>1. form[s] \in Edit
  BY DEF StorePatch, IInv, SessionKnown, FormKnown
<1>2. service' \in ServiceRow
  BY <1>1 DEF StorePatch, IInv, TypeOK, ServiceRow, Edit
<1>3. UNCHANGED <<appts, clients, records, charge, page, faults>>
  BY DEF StorePatch
<1>4. TypeOK'
  BY <1>2, <1>3, Closed DEF StorePatch, IInv, TypeOK
<1>5. Onward
  BY <1>3 DEF Onward, Paid
<1>6. Ledger'
  BY <1>3 DEF Ledger, IInv, RecordsKnown, PagesKnown, PaidIsConfirmed, PaymentConfirmsPaid, RecordsOf
<1>7. \A t \in Sessions \ {s} : KeepsFresh(t)
  BY <1>3 DEF KeepsFresh, IInv, SessionKnown, PaymentKnown
<1> QED
  BY <1>4, <1>5, <1>6, <1>7, Closed, SessionStep DEF StorePatch, IInv, Alone, Querying

LEMMA RespondStep ==
  ASSUME IInv, NEW s \in Sessions, Respond(s)
  PROVE  IInv'
<1>1. job[s].appt \in Appts /\ appts[job[s].appt] # None
  BY DEF Respond, IInv, SessionKnown, JobKnown, WithAppt
<1> DEFINE seen == CASE job[s].kind = "book"      -> "opening"
                       [] pay[s].answer = "pending" -> "polling"
                       [] OTHER                     -> "stopped"
<1>2. seen \in {"opening", "polling", "stopped"} /\ page' = [page EXCEPT ![job[s].appt] = seen]
  BY DEF Respond
<1> HIDE DEF seen
<1>3. UNCHANGED <<appts, clients, records, service, charge, faults>>
  BY DEF Respond, tables
<1>4. page' \in [Appts -> {"unopened", "opening", "polling", "stopped"}]
  BY <1>1, <1>2 DEF IInv, TypeOK
<1>5. TypeOK'
  BY <1>3, <1>4, Closed DEF Respond, IInv, TypeOK
<1>6. Onward
  BY <1>3 DEF Onward, Paid
<1>7. Ledger'
  BY <1>1, <1>2, <1>3
     DEF Ledger, IInv, TypeOK, RecordsKnown, PagesKnown, PaidIsConfirmed, PaymentConfirmsPaid, RecordsOf
<1>8. \A t \in Sessions \ {s} : KeepsFresh(t)
  BY <1>3 DEF KeepsFresh, IInv, SessionKnown, PaymentKnown
<1> QED
  BY <1>5, <1>6, <1>7, <1>8, Closed, SessionStep DEF Respond, IInv, Alone, Querying

LEMMA TransitionStep ==
  ASSUME IInv, NEW s \in Sessions, Transition(s)
  PROVE  IInv'
<1> DEFINE a == job[s].appt
           to == job[s].target
           row == [appts[a] EXCEPT !.status = to,
                                   !.by = IF to = Confirmed THEN @ \cup {job[s].by} ELSE @]
<1>1. /\ pc[s] = "transition" /\ a \in Appts /\ appts[a] \in ApptRow /\ appts[a] # None
      /\ job[s] \in Job /\ to \in Statuses /\ to # Pending
      /\ job[s].by = "payment_provider" => pay[s].new = "approved" /\ pay[s].new # None /\ Paid(pay[s].rec)
  BY NotNone DEF Transition, PaymentStatuses, IInv, TypeOK, SessionKnown, JobKnown, PaymentKnown, WithAppt, Job
<1>2. /\ row \in ApptRow
      /\ row.status = to
      /\ row.by \subseteq appts[a].by \cup {job[s].by}
  BY <1>1 DEF ApptRow, Job
<1>3. row # None
  BY <1>2, NoneAssumption
<1>4. appts' = [appts EXCEPT ![a] = row] /\ records' = WithRecord(s) /\ ContinueOrClose(s)
  BY DEF Transition
<1>5. UNCHANGED <<clients, service, charge, page, faults>>
  BY DEF Transition
<1> HIDE DEF a, to, row
<1>6. /\ appts'[a] = row /\ appts' \in [Appts -> ApptRow \cup {None}]
      /\ \A b \in Appts \ {a} : appts'[b] = appts[b]
  BY <1>1, <1>2, <1>4 DEF IInv, TypeOK
<1>7. \A b \in Appts : appts[b] # None =>
        appts'[b] # None /\ (appts[b].status # Pending => appts'[b].status # Pending)
  BY <1>1, <1>2, <1>3, <1>6
<1>8. /\ pc' \in [Sessions -> Steps]
      /\ ctx' \in [Sessions -> BOOLEAN]
      /\ job' \in [Sessions -> Job]
      /\ form' \in [Sessions -> Booking \cup Edit \cup {None}]
      /\ pay' \in [Sessions -> Payment]
      /\ SessionKnown(s)'
      /\ pay'[s].new = None
      /\ pc'[s] \notin Querying
      /\ \A t \in Sessions \ {s} : Untouched(t)
  BY <1>1, <1>4, <1>7, Committed
<1>9. /\ records' \in [Records -> RecordRow \cup {None}]
      /\ \A r \in Records :
           records'[r] = records[r]
           \/ /\ pay[s].new # None /\ r = pay[s].rec
              /\ records'[r].appt = job[s].appt /\ records'[r].status = pay[s].new
      /\ pay[s].new # None =>
           /\ pay[s].rec \in Records
           /\ records'[pay[s].rec] # None
           /\ records'[pay[s].rec].appt = job[s].appt
      /\ \A r \in Records : records[r] # None =>
           records'[r] # None /\ records'[r].appt = records[r].appt
      /\ \A r \in Records : records'[r] # None => charge'[r] # None
      /\ \A t \in Sessions \ {s} : KeepsFresh(t)
  BY <1>1, <1>4, <1>5, RecordCommitted
<1>10. TypeOK'
  BY <1>5, <1>6, <1>8, <1>9 DEF IInv, TypeOK
<1>11. Onward
  BY <1>5, <1>7, <1>9 DEF Onward, Paid
<1>12. a = job[s].appt
  BY DEF a
<1>13. RecordsKnown' /\ PagesKnown'
  <2>1. \A r \in Records : records'[r] # None => appts'[records'[r].appt] # None
    BY <1>1, <1>3, <1>6, <1>7, <1>9, <1>12 DEF IInv, TypeOK, RecordRow, RecordsKnown
  <2> QED
    BY <1>5, <1>7, <1>9, <2>1 DEF IInv, RecordsKnown, PagesKnown
<1>14. PaidIsConfirmed'
  <2> SUFFICES ASSUME NEW r \in Records, records'[r] # None, records'[r].status = "approved"
               PROVE  appts'[records'[r].appt].status # Pending
    BY DEF PaidIsConfirmed
  <2>1. CASE records'[r] = records[r]
    BY <1>7, <2>1 DEF IInv, TypeOK, RecordRow, RecordsKnown, PaidIsConfirmed
  <2>2. CASE records'[r].appt = a
    BY <1>1, <1>2, <1>6, <2>2
  <2> QED
    BY <1>9, <1>12, <2>1, <2>2
<1>15. PaymentConfirmsPaid'
  <2> SUFFICES ASSUME NEW b \in Appts, appts'[b] # None, "payment_provider" \in appts'[b].by
               PROVE  \E r \in Records : records'[r] # None /\ records'[r].appt = b /\ Paid(r)
    BY <1>5 DEF PaymentConfirmsPaid, RecordsOf, Paid
  <2>1. CASE appts[b] # None /\ "payment_provider" \in appts[b].by
    <3>1. \E r \in Records : records[r] # None /\ records[r].appt = b /\ Paid(r)
      BY <2>1 DEF IInv, PaymentConfirmsPaid, RecordsOf, Paid
    <3> QED
      BY <1>9, <3>1
  <2>2. CASE b = a /\ job[s].by = "payment_provider"
    BY <1>1, <1>9, <1>12, <2>2
  <2>3. b # a => appts'[b] = appts[b]
    BY <1>6
  <2> QED
    BY <1>1, <1>2, <1>6, <2>1, <2>2, <2>3
<1> QED
  BY <1>8, <1>9, <1>10, <1>11, <1>13, <1>14, <1>15, SessionStep DEF Ledger, Alone

LEMMA CommitRecordStep ==
  ASSUME IInv, NEW s \in Sessions, CommitRecord(s)
  PROVE  IInv'
<1>1. /\ pc[s] = "commit" /\ records' = WithRecord(s) /\ ContinueOrClose(s)
      /\ UNCHANGED <<appts, clients, service, charge, page, faults>>
  BY DEF CommitRecord
<1>2. /\ job[s].appt \in Appts /\ appts[job[s].appt] # None
      /\ pay[s].new = "approved" => appts[job[s].appt].status # Pending
  BY <1>1 DEF IInv, SessionKnown, JobKnown, PaymentKnown, WithAppt
<1>3. /\ pc' \in [Sessions -> Steps]
      /\ ctx' \in [Sessions -> BOOLEAN]
      /\ job' \in [Sessions -> Job]
      /\ form' \in [Sessions -> Booking \cup Edit \cup {None}]
      /\ pay' \in [Sessions -> Payment]
      /\ SessionKnown(s)'
      /\ pay'[s].new = None
      /\ pc'[s] \notin Querying
      /\ \A t \in Sessions \ {s} : Untouched(t)
  BY <1>1, Committed
<1>4. /\ records' \in [Records -> RecordRow \cup {None}]
      /\ \A r \in Records :
           records'[r] = records[r]
           \/ /\ pay[s].new # None /\ r = pay[s].rec
              /\ records'[r].appt = job[s].appt /\ records'[r].status = pay[s].new
      /\ \A r \in Records : records[r] # None =>
           records'[r] # None /\ records'[r].appt = records[r].appt
      /\ \A r \in Records : records'[r] # None => charge'[r] # None
      /\ \A t \in Sessions \ {s} : KeepsFresh(t)
  BY <1>1, RecordCommitted
<1>5. TypeOK'
  BY <1>1, <1>3, <1>4 DEF IInv, TypeOK
<1>6. Onward
  BY <1>1, <1>4 DEF Onward, Paid
<1>7. RecordsKnown' /\ PagesKnown'
  BY <1>1, <1>2, <1>4 DEF IInv, RecordsKnown, PagesKnown
<1>8. PaidIsConfirmed'
  BY <1>1, <1>2, <1>4 DEF IInv, PaidIsConfirmed
<1>9. PaymentConfirmsPaid'
  BY <1>1, <1>4 DEF IInv, PaymentConfirmsPaid, RecordsOf
<1> QED
  BY <1>3, <1>4, <1>5, <1>6, <1>7, <1>8, <1>9, SessionStep DEF Ledger, Alone

(* The client pays, or the money goes back: no request notices. *)
LEMMA ChargeChangesStep ==
  ASSUME IInv, NEW r \in Records, ChargeChanges(r)
  PROVE  IInv'
<1>1. PICK st \in {"approved", "rejected", "refunded"} :
        /\ charge' = [charge EXCEPT ![r] = st]
        /\ charge[r] # None
        /\ Paid(r) => st = "refunded"
  BY NotNone DEF ChargeChanges, ChargeStates, Paid
<1>2. UNCHANGED <<appts, clients, records, service, page, pc, ctx, job, form, pay, faults>>
  BY DEF ChargeChanges, tables, locals
<1>3. /\ charge' \in [Records -> ChargeStates \cup {None}]
      /\ charge'[r] = st /\ st # None
      /\ \A q \in Records \ {r} : charge'[q] = charge[q]
  BY <1>1, NotNone DEF IInv, TypeOK, ChargeStates
<1>4. TypeOK'
  BY <1>2, <1>3 DEF IInv, TypeOK
<1>5. Onward
  BY <1>1, <1>2, <1>3 DEF Onward, Paid
<1>6. \A t \in Sessions : KeepsFresh(t)
  <2> SUFFICES ASSUME NEW t \in Sessions, pay[t].new # None, pc[t] = "provider"
               PROVE  charge'[pay[t].rec] = None
    BY <1>2 DEF KeepsFresh
  <2>1. pay[t].rec \in Records /\ charge[pay[t].rec] = None
    BY DEF IInv, SessionKnown, PaymentKnown, OnRecord
  <2> QED
    BY <1>1, <1>3, <2>1
<1>7. \A t \in Sessions : SessionKnown(t)'
  BY <1>2, <1>5, <1>6, BystanderKnown DEF Untouched
<1>8. PaymentConfirmsPaid'
  <2>1. \A q \in Records : Paid(q) => Paid(q)'
    BY <1>5 DEF Onward
  <2> QED
    BY <1>2, <2>1 DEF IInv, PaymentConfirmsPaid, RecordsOf, Paid
<1>9. RecordsKnown' /\ PagesKnown' /\ PaidIsConfirmed'
  BY <1>2, <1>3 DEF IInv, RecordsKnown, PagesKnown, PaidIsConfirmed
<1>10. OneWriter' /\ ContextSet'
  BY <1>2 DEF IInv, OneWriter, HoldsRecord, ContextSet
<1> QED
  BY <1>4, <1>7, <1>8, <1>9, <1>10 DEF IInv

-----------------------------------------------------------------------------
(* The theorems                                                            *)

LEMMA InitKnown ==
  ASSUME Init
  PROVE  IInv
<1>1. NoJob \in Job /\ NoPayment \in Payment /\ NoPayment.new = None
      /\ NoJob.target # Pending /\ NoJob.then = "idle"
  BY NoJobType DEF NoPayment, Payment
<1>2. TypeOK
  BY <1>1, MaxFaultsAssumption DEF Init, TypeOK, Steps
<1>3. \A s \in Sessions : SessionKnown(s)
  BY <1>1 DEF Init, SessionKnown, FormKnown, JobKnown, PaymentKnown, VersionKnown, WithAppt, OnRecord
<1>4. OneWriter /\ RecordsKnown /\ PagesKnown /\ ContextSet /\ PaidIsConfirmed /\ PaymentConfirmsPaid
  BY <1>1 DEF Init, OneWriter, HoldsRecord, RecordsKnown, PagesKnown, ContextSet, PaidIsConfirmed,
              PaymentConfirmsPaid, Querying
<1> QED
  BY <1>2, <1>3, <1>4 DEF IInv

LEMMA AdvanceStep ==
  ASSUME IInv, NEW s \in Sessions, Advance(s)
  PROVE  IInv'
<1>1. CASE SetTenantContext(s) \/ FindOrCreateClient(s) \/ CreateAppointment(s) \/ InsertRecord(s)
           \/ ChargeCreated(s) \/ Decide(s) \/ Transition(s)
  BY <1>1, SetTenantContextStep, FindOrCreateClientStep, CreateAppointmentStep, InsertRecordStep,
     ChargeCreatedStep, DecideStep, TransitionStep
<1>2. CASE ReadPayments(s) \/ PollProvider(s) \/ Respond(s) \/ LoadRecord(s) \/ ApplyStatus(s)
           \/ SeeAppointment(s) \/ CommitRecord(s) \/ StorePatch(s)
  BY <1>2, ReadPaymentsStep, PollProviderStep, RespondStep, LoadRecordStep, ApplyStatusStep,
     SeeAppointmentStep, CommitRecordStep, StorePatchStep
<1>3. CASE SlotTaken(s) \/ NoDeposit(s) \/ RefuseTransition(s) \/ SlotLost(s) \/ DropWebhook(s)
  <2>1. Rollback(s)
    BY <1>3 DEF SlotTaken, NoDeposit, RefuseTransition, SlotLost, DropWebhook
  <2> QED
    BY <2>1, RollbackStep
<1> QED
  BY <1>1, <1>2, <1>3 DEF Advance

LEMMA StepKnown ==
  ASSUME IInv, [Next]_vars
  PROVE  IInv'
<1>1. ASSUME NEW s \in Sessions, Start(s) \/ StartView(s)
      PROVE  IInv'
  BY <1>1, StartBookStep, StartDepositStep, StartStaffStep, StartReplyStep, StartRefreshStep,
     StartWebhookStep, StartPatchStep, StartViewStep DEF Start
<1>2. ASSUME NEW s \in Sessions, ChargeFails(s) \/ Lose(s)
      PROVE  IInv'
  BY <1>2, ChargeFailsStep, LoseStep
<1>3. CASE UNCHANGED vars
  BY <1>3
     DEF vars, tables, locals, IInv, TypeOK, SessionKnown, FormKnown, JobKnown, PaymentKnown, VersionKnown,
         OneWriter, HoldsRecord, RecordsKnown, PagesKnown, ContextSet, PaidIsConfirmed, PaymentConfirmsPaid,
         RecordsOf, Paid
<1> QED
  BY <1>1, <1>2, <1>3, AdvanceStep, ChargeChangesStep DEF Next

(* What every request knows at every place, and what the tables say of      *)
(* payments, hold in every state of the flow.                               *)
THEOREM Invariant == Spec => []IInv
  BY InitKnown, StepKnown, PTL DEF Spec

(* Every variable stays in its type, for any number of requests. *)
THEOREM TypeCorrect == Spec => []TypeOK
<1>1. IInv => TypeOK
  BY DEF IInv
<1> QED
  BY <1>1, Invariant, PTL

(* database.py: no request of this flow reaches a query with the tenant     *)
(* setting lost at one of its commits.                                      *)
THEOREM TenantContextKept == Spec => []ContextSet
<1>1. IInv => ContextSet
  BY DEF IInv
<1> QED
  BY <1>1, Invariant, PTL

(* payment_service.py: an approval and the confirmation it causes are one   *)
(* commit, so no approved payment is stored beside a pending appointment.   *)
THEOREM PaidAreConfirmed == Spec => []PaidIsConfirmed
<1>1. IInv => PaidIsConfirmed
  BY DEF IInv
<1> QED
  BY <1>1, Invariant, PTL

(* payment_service.py: nothing is confirmed in the provider's name without  *)
(* a payment the provider took.                                             *)
THEOREM ConfirmedArePaid == Spec => []PaymentConfirmsPaid
<1>1. IInv => PaymentConfirmsPaid
  BY DEF IInv
<1> QED
  BY <1>1, Invariant, PTL

-----------------------------------------------------------------------------
(* What the steps do to the appointments                                   *)

(* Only the commit of a creation and that of a transition write a row.      *)
LEMMA WritersOfAppts ==
  ASSUME [Next]_vars
  PROVE  appts' = appts \/ \E s \in Sessions : CreateAppointment(s) \/ Transition(s)
<1>1. ASSUME NEW s \in Sessions, Start(s) \/ StartView(s)
      PROVE  appts' = appts
  BY <1>1 DEF Start, StartBook, StartDeposit, StartStaff, StartReply, StartRefresh, StartWebhook, StartPatch,
              StartView, tables
<1>2. ASSUME NEW s \in Sessions, Advance(s), ~CreateAppointment(s), ~Transition(s)
      PROVE  appts' = appts
  BY <1>2 DEF Advance, SetTenantContext, FindOrCreateClient, SlotTaken, InsertRecord, NoDeposit, ChargeCreated,
              Decide, RefuseTransition, SlotLost, ReadPayments, PollProvider, Respond, LoadRecord, DropWebhook,
              ApplyStatus, SeeAppointment, CommitRecord, StorePatch, Rollback, tables
<1>3. ASSUME NEW s \in Sessions, ChargeFails(s) \/ Lose(s)
      PROVE  appts' = appts
  BY <1>3 DEF ChargeFails, Lose, tables
<1>4. ASSUME NEW r \in Records, ChargeChanges(r)
      PROVE  appts' = appts
  BY <1>4 DEF ChargeChanges, tables
<1> QED
  BY <1>1, <1>2, <1>3, <1>4 DEF Next, vars, tables

Approves(r, a) == records[r] # None /\ records[r].appt = a /\ records[r].status = "approved"

(* A row confirmed in the provider's name comes with the session's version  *)
(* of the record, and that says approved.                                   *)
LEMMA TransitionApproves ==
  ASSUME IInv, NEW s \in Sessions, Transition(s), NEW a \in Appts,
         ~ConfirmedByPayment(a), ConfirmedByPayment(a)'
  PROVE  \E r \in Records : Approves(r, a)'
<1> DEFINE b == job[s].appt
           row == [appts[b] EXCEPT !.status = job[s].target,
                                   !.by = IF job[s].target = Confirmed THEN @ \cup {job[s].by} ELSE @]
<1>1. /\ pc[s] = "transition" /\ b \in Appts /\ appts[b] \in ApptRow /\ appts[b] # None
      /\ job[s] \in Job /\ SessionKnown(s)
      /\ appts \in [Appts -> ApptRow \cup {None}]
  BY DEF Transition, IInv, TypeOK, SessionKnown, JobKnown, WithAppt
<1>2. appts' = [appts EXCEPT ![b] = row] /\ records' = WithRecord(s) /\ charge' = charge
  BY DEF Transition
<1>3. row.by \subseteq appts[b].by \cup {job[s].by}
  BY <1>1 DEF ApptRow
<1> HIDE DEF row
<1>4. a = b
  BY <1>1, <1>2 DEF ConfirmedByPayment
<1>5. "payment_provider" \in row.by
  BY <1>1, <1>2, <1>4 DEF ConfirmedByPayment
<1>6. job[s].by = "payment_provider"
  BY <1>1, <1>3, <1>4, <1>5 DEF ConfirmedByPayment
<1>7. pay[s].new = "approved" /\ pay[s].new # None
  BY <1>1, <1>6, NotNone DEF SessionKnown, PaymentKnown, PaymentStatuses
<1>8. /\ pay[s].rec \in Records
      /\ records'[pay[s].rec] # None
      /\ records'[pay[s].rec] = [appt |-> b, status |-> pay[s].new]
  <2>1. records' = [records EXCEPT ![pay[s].rec] = [appt |-> b, status |-> pay[s].new]]
    BY <1>2, <1>7 DEF WithRecord
  <2> QED
    BY <1>1, <1>2, <1>7, <2>1, RecordCommitted DEF IInv, TypeOK
<1> QED
  BY <1>4, <1>7, <1>8 DEF Approves

(* payment_service.py: the approval is in the commit that confirms.         *)
THEOREM ConfirmationsHaveApproval == Spec => ConfirmsWithApproval
<1>1. ASSUME IInv, [Next]_vars, NEW a \in Appts, ~ConfirmedByPayment(a), ConfirmedByPayment(a)'
      PROVE  \E r \in RecordsOf(a)' : records'[r].status = "approved"
  <2>1. CASE appts' = appts
    BY <1>1, <2>1 DEF ConfirmedByPayment
  <2>2. ASSUME NEW s \in Sessions, CreateAppointment(s)
        PROVE  FALSE
    <3>1. PICK b \in Appts : appts[b] = None /\ appts' = [appts EXCEPT ![b] =
                 [client |-> form[s].client, slot |-> form[s].slot, status |-> Pending, by |-> {}]]
      BY <2>2 DEF CreateAppointment
    <3> QED
      BY <1>1, <3>1 DEF IInv, TypeOK, ConfirmedByPayment
  <2>3. ASSUME NEW s \in Sessions, Transition(s)
        PROVE  \E r \in RecordsOf(a)' : records'[r].status = "approved"
    BY <1>1, <2>3, TransitionApproves DEF Approves, RecordsOf
  <2> QED
    BY <1>1, <2>1, <2>2, <2>3, WritersOfAppts
<1>2. IInv /\ [Next]_vars =>
        [\A a \in Appts : ~ConfirmedByPayment(a) /\ ConfirmedByPayment(a)' =>
           \E r \in RecordsOf(a)' : records'[r].status = "approved"]_vars
  BY <1>1
<1> QED
  BY <1>2, Invariant, PTL DEF Spec, ConfirmsWithApproval

-----------------------------------------------------------------------------
(* The refinement                                                          *)

Held == [a \in Appts |-> HeldSlot(appts[a])]

LEMMA UnitSlotsMeet ==
  ASSUME NEW m \in Nat, NEW n \in Nat, m < n + 1, n < m + 1
  PROVE  m = n
  OBVIOUS

LEMMA UnitSlotsCompete ==
  ASSUME NEW m \in Nat, NEW n \in Nat, Agenda!Compete(UnitSlot(m), UnitSlot(n))
  PROVE  m = n
<1>1. m < n + 1 /\ n < m + 1
  BY DEF Agenda!Compete, UnitSlot
<1> QED
  BY <1>1, UnitSlotsMeet

(* A slot nobody has meets none that is held. *)
LEMMA FreeSlotAvailable ==
  ASSUME TypeOK, NEW a \in Appts, NEW slot \in Slots, SlotFree(slot)
  PROVE  Agenda!Available(a, UnitSlot(slot))
<1> SUFFICES ASSUME NEW b \in Appts, Held[b] # None
             PROVE  ~Agenda!Compete(UnitSlot(slot), Held[b])
  BY DEF Agenda!Available, Held
<1>1. appts[b] # None /\ appts[b].status # Cancelled /\ appts[b] \in ApptRow
  BY DEF Held, HeldSlot, TypeOK
<1>2. Held[b] = UnitSlot(appts[b].slot)
  BY <1>1 DEF Held, HeldSlot, UnitSlot
<1>3. appts[b].slot \in Nat /\ slot \in Nat
  BY <1>1, SlotsAssumption DEF ApptRow
<1>4. appts[b].slot # slot
  BY <1>1 DEF SlotFree
<1> QED
  BY <1>2, <1>3, <1>4, UnitSlotsCompete

(* The row of one appointment begins to hold a slot that is free. *)
LEMMA TakesFreeSlot ==
  ASSUME TypeOK, NEW a \in Appts, HeldSlot(appts[a]) = None,
         NEW row \in ApptRow, row.status # Cancelled, SlotFree(row.slot), appts' = [appts EXCEPT ![a] = row]
  PROVE  Agenda!Next
<1> DEFINE slot == UnitSlot(row.slot)
<1>1. row # None /\ row.slot \in Slots
  BY NoneAssumption DEF ApptRow
<1>2. slot \in Agenda!Slot
  BY <1>1 DEF Agenda!Slot, UnitSlot
<1>3. HeldSlot(row) = slot
  BY <1>1 DEF HeldSlot, UnitSlot
<1>4. Held' = [Held EXCEPT ![a] = slot]
  BY <1>3 DEF Held, TypeOK
<1>5. Agenda!Available(a, slot)
  BY <1>1, FreeSlotAvailable
<1>6. Held[a] = None
  BY DEF Held
<1> HIDE DEF slot
<1>7. Agenda!Take(a, slot)
  BY <1>4, <1>5, <1>6 DEF Agenda!Take, Held
<1> QED
  BY <1>2, <1>7 DEF Agenda!Next

LEMMA CreateInAgenda ==
  ASSUME IInv, NEW s \in Sessions, CreateAppointment(s)
  PROVE  Agenda!Next
<1> DEFINE row == [client |-> form[s].client, slot |-> form[s].slot, status |-> Pending, by |-> {}]
<1>1. form[s] \in Booking /\ form[s].client \in Clients /\ SlotFree(form[s].slot)
  BY DEF CreateAppointment, IInv, SessionKnown, FormKnown
<1>2. PICK a \in Appts : appts[a] = None /\ appts' = [appts EXCEPT ![a] = row]
  BY DEF CreateAppointment
<1>3. row \in ApptRow /\ row.status # Cancelled /\ SlotFree(row.slot)
  BY <1>1 DEF ApptRow, Booking, Statuses, Pending, Cancelled
<1>4. HeldSlot(appts[a]) = None
  BY <1>2 DEF HeldSlot
<1> HIDE DEF row
<1> QED
  BY <1>2, <1>3, <1>4, TakesFreeSlot DEF IInv

LEMMA TransitionInAgenda ==
  ASSUME IInv, NEW s \in Sessions, Transition(s)
  PROVE  Agenda!Next \/ UNCHANGED Held
<1> DEFINE a == job[s].appt
           to == job[s].target
           row == [appts[a] EXCEPT !.status = to,
                                   !.by = IF to = Confirmed THEN @ \cup {job[s].by} ELSE @]
<1>1. /\ a \in Appts /\ appts[a] \in ApptRow /\ appts[a] # None
      /\ job[s] \in Job /\ to \in Statuses /\ MayHoldSlot(a, to) /\ TypeOK
  BY DEF Transition, IInv, TypeOK, SessionKnown, JobKnown, WithAppt, Job
<1>2. row \in ApptRow /\ row.status = to /\ row.slot = appts[a].slot
  BY <1>1 DEF ApptRow, Job
<1>3. row # None
  BY <1>2, NoneAssumption
<1>4. appts' = [appts EXCEPT ![a] = row]
  BY DEF Transition
<1> HIDE DEF a, to, row
<1>5. Held' = [Held EXCEPT ![a] = HeldSlot(row)]
  BY <1>1, <1>4 DEF Held, TypeOK
<1>6. CASE to = Cancelled
  <2>1. Held' = [Held EXCEPT ![a] = None]
    BY <1>2, <1>5, <1>6 DEF HeldSlot
  <2>2. Agenda!GiveUp(a)
    BY <2>1 DEF Agenda!GiveUp, Held
  <2> QED
    BY <1>1, <2>2 DEF Agenda!Next
<1>7. CASE to # Cancelled /\ appts[a].status = Cancelled
  <2>1. SlotFree(row.slot)
    BY <1>1, <1>2, <1>7 DEF MayHoldSlot
  <2>2. HeldSlot(appts[a]) = None
    BY <1>7 DEF HeldSlot
  <2> QED
    BY <1>1, <1>2, <1>4, <1>7, <2>1, <2>2, TakesFreeSlot
<1>8. CASE to # Cancelled /\ appts[a].status # Cancelled
  <2>1. HeldSlot(row) = HeldSlot(appts[a])
    BY <1>1, <1>2, <1>3, <1>8 DEF HeldSlot
  <2> QED
    BY <1>1, <1>5, <2>1 DEF Held
<1> QED
  BY <1>6, <1>7, <1>8

(* Every commit of the flow is a step of the Calendar or none.  What the    *)
(* flow takes from appointment_service.py is what AppointmentService is     *)
(* proved to give.                                                          *)
THEOREM FlowKeepsCalendar == Spec => ImplementsCalendar
<1>1. Init => Agenda!Init
  BY DEF Init, Agenda!Init, HeldSlot
<1>2. ASSUME IInv, [Next]_vars
      PROVE  [Agenda!Next]_[a \in Appts |-> HeldSlot(appts[a])]
  <2>1. CASE appts' = appts
    BY <2>1
  <2>2. ASSUME NEW s \in Sessions, CreateAppointment(s)
        PROVE  Agenda!Next
    BY <1>2, <2>2, CreateInAgenda
  <2>3. ASSUME NEW s \in Sessions, Transition(s)
        PROVE  Agenda!Next \/ UNCHANGED [a \in Appts |-> HeldSlot(appts[a])]
    BY <1>2, <2>3, TransitionInAgenda DEF Held
  <2> QED
    BY <1>2, <2>1, <2>2, <2>3, WritersOfAppts
<1> QED
  BY <1>1, <1>2, Invariant, PTL DEF Spec, ImplementsCalendar, Agenda!Spec
=============================================================================
