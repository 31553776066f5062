--------------------------- MODULE RemindersProofs ---------------------------
(***************************************************************************)
(* Proofs about Reminders, for any companies, appointments, offsets,       *)
(* interval, delays and faults.                                            *)
(*                                                                         *)
(* RemindedInTime is about committed scans and messages.  Inductive is its *)
(* form over the log (LoggedInTime), with what a visit in progress knows   *)
(* of the windows it has listed (VisitKnown), and that nothing is logged   *)
(* that was not sent (SendsKnown).  The step that matters is CommitScan:   *)
(* the instants it adds to the covered range all lie in its own window,    *)
(* because it began no later than an interval after the one before.        *)
(***************************************************************************)
EXTENDS Reminders, TLAPS

LEMMA NoneIsNoTime ==
  /\ \A n \in Nat : n # None
  /\ \A t \in Tenants : t # None
  BY TenantAssumption

LEMMA OffsetType == \A ty \in Types : Offset(ty) \in Nat
  BY TimeAssumption DEF Offset, Types

LEMMA PairType == \A a \in Appts, ty \in Types : <<a, ty>> \in Reminders
  BY DEF Reminders

(* Steps that leave the appointments, the log and the scans alone. *)
LEMMA Uncovering ==
  ASSUME LoggedInTime, UNCHANGED <<appts, log, first, scanned, late>>
  PROVE  LoggedInTime'
  BY DEF LoggedInTime, Expected, Instant

(* Steps outside the visit in progress and its log. *)
LEMMA VisitUntouched ==
  ASSUME VisitKnown, clock' \in Nat, clock \in Nat, now \in Nat, clock <= clock',
         UNCHANGED <<appts, log, pc, tenant, now, type, batch, pending>>
  PROVE  VisitKnown'
  BY DEF VisitKnown, Listed, InWindow, Instant

LEMMA SendsUntouched ==
  ASSUME SendsKnown, UNCHANGED <<sends, failures, log, pending>>
  PROVE  SendsKnown'
  BY DEF SendsKnown

LEMMA InitKnown ==
  ASSUME Init
  PROVE  IInv
<1>1. TypeOK
  <2>1. appts \in [Appts -> Row]
    BY DEF Init, Row, Statuses
  <2>2. sends \in [Reminders -> Nat]
    BY DEF Init
  <2>3. /\ first \in [Tenants -> Nat \cup {None}]
        /\ scanned \in [Tenants -> Nat \cup {None}]
        /\ late \in [Tenants -> BOOLEAN]
        /\ failures \in [Tenants -> Nat]
    BY DEF Init
  <2> QED
    BY <2>1, <2>2, <2>3 DEF Init, TypeOK, Types
<1>2. VisitKnown /\ ScansKnown /\ LoggedInTime
  <2>1. \A a \in Appts : first[TenantOf[a]] = None
    BY TenantAssumption DEF Init
  <2>2. VisitKnown
    BY DEF Init, VisitKnown, Listed
  <2>3. ScansKnown
    BY DEF Init, ScansKnown
  <2> QED
    BY <2>1, <2>2, <2>3 DEF LoggedInTime, Expected
<1>3. SendsKnown
  <2> SUFFICES ASSUME NEW x \in Reminders
               PROVE  /\ sends[x] <= failures[TenantOf[x[1]]] + (IF x \in log \cup pending THEN 1 ELSE 0)
                      /\ x \notin log \cup pending
    BY DEF SendsKnown
  <2>1. TenantOf[x[1]] \in Tenants
    BY TenantAssumption DEF Reminders
  <2> QED
    BY <2>1 DEF Init
<1> QED
  BY <1>1, <1>2, <1>3 DEF IInv

-----------------------------------------------------------------------------
(* Steps outside the worker                                                *)

LEMMA PassTimeStep ==
  ASSUME IInv, PassTime
  PROVE  IInv'
<1>1. UNCHANGED <<due, queue, appts, edits, log, sends, pc, todo, tenant, now, type, batch, pending, faults,
                  lost, first, scanned, late, failures>>
  BY DEF PassTime, schedule, calendar, outside, worker, history
<1>2. clock' = clock + 1 /\ clock \in Nat /\ now \in Nat
  BY DEF PassTime, IInv, TypeOK
<1>3. TypeOK'
  BY <1>1, <1>2 DEF PassTime, IInv, TypeOK
<1>4. VisitKnown' /\ SendsKnown' /\ LoggedInTime'
  BY <1>1, <1>2, VisitUntouched, SendsUntouched, Uncovering DEF IInv
<1>5. ScansKnown'
  BY <1>1, <1>2 DEF IInv, TypeOK, ScansKnown
<1> QED
  BY <1>1, <1>3, <1>4, <1>5 DEF IInv

(* A changed appointment is out of every window that is being worked on or  *)
(* was covered until an interval has passed.                                *)
LEMMA ChangeStep ==
  ASSUME IInv, NEW a \in Appts, NEW row \in Row, row.since = clock, Change(a, row)
  PROVE  IInv'
<1>1. UNCHANGED <<clock, delays, due, queue, log, sends, pc, todo, tenant, now, type, batch, pending, faults,
                  lost, first, scanned, late, failures>>
  BY DEF Change, schedule, outside, worker, history
<1>2. appts \in [Appts -> Row] /\ appts' = [appts EXCEPT ![a] = row] /\ edits' = edits + 1
  BY DEF Change, IInv, TypeOK
<1>3. appts'[a] = row /\ \A b \in Appts \ {a} : appts'[b] = appts[b]
  BY <1>2
<1>4. TypeOK'
  BY <1>1, <1>2 DEF IInv, TypeOK
<1>5. VisitKnown'
  BY <1>1, <1>3 DEF IInv, TypeOK, VisitKnown, Listed, InWindow, Instant
<1>6. LoggedInTime'
  <2> SUFFICES ASSUME NEW b \in Appts, NEW ty \in Types, Expected(b, ty)', ~late[TenantOf[b]]
               PROVE  <<b, ty>> \in log
    BY <1>1 DEF LoggedInTime
  <2>1. CASE b = a
    <3> DEFINE i == row.start - Offset(ty)
               t == TenantOf[a]
    <3>0. t \in Tenants /\ first[t] # None
      BY <1>1, <2>1, TenantAssumption DEF Expected
    <3>1. scanned[t] # None /\ scanned[t] \in Nat /\ scanned[t] <= clock
      BY <3>0 DEF IInv, TypeOK, ScansKnown
    <3>2. clock + Interval <= i /\ i < scanned[t] + Interval
      BY <1>1, <1>3, <2>1 DEF Expected, Instant
    <3>3. clock \in Nat /\ Interval \in Nat
      BY TimeAssumption DEF IInv, TypeOK
    <3>4. row.start \in Int /\ Offset(ty) \in Nat
      BY OffsetType, TimeAssumption DEF Row
    <3>5. i \in Int
      BY <3>4
    <3> HIDE DEF i, t
    <3> QED
      BY <3>1, <3>2, <3>3, <3>5
  <2>2. CASE b # a
    BY <1>1, <1>3, <2>2 DEF Expected, Instant, IInv, LoggedInTime
  <2> QED
    BY <2>1, <2>2
<1> QED
  BY <1>1, <1>4, <1>5, <1>6, SendsUntouched DEF IInv, ScansKnown

LEMMA SetStatusStep ==
  ASSUME IInv, NEW a \in Appts, SetStatus(a)
  PROVE  IInv'
<1>1. PICK to \in AllowedTransitions[appts[a].status] :
        Change(a, [appts[a] EXCEPT !.status = to, !.since = clock])
  BY DEF SetStatus
<1>2. appts[a] \in Row /\ clock \in Nat
  BY DEF IInv, TypeOK
<1>3. to \in Statuses
  BY <1>1, <1>2 DEF Row, AllowedTransitions, Statuses
<1>4. [appts[a] EXCEPT !.status = to, !.since = clock] \in Row
  BY <1>2, <1>3 DEF Row
<1>5. [appts[a] EXCEPT !.status = to, !.since = clock].since = clock
  BY <1>2 DEF Row
<1> QED
  BY <1>1, <1>4, <1>5, ChangeStep

LEMMA MoveStep ==
  ASSUME IInv, NEW a \in Appts, Move(a)
  PROVE  IInv'
<1>1. PICK start \in Starts : Change(a, [appts[a] EXCEPT !.start = start, !.since = clock])
  BY DEF Move
<1>2. appts[a] \in Row /\ clock \in Nat
  BY DEF IInv, TypeOK
<1>3. /\ [appts[a] EXCEPT !.start = start, !.since = clock] \in Row
      /\ [appts[a] EXCEPT !.start = start, !.since = clock].since = clock
  BY <1>2 DEF Row
<1> QED
  BY <1>1, <1>3, ChangeStep

LEMMA SchedulerStep ==
  ASSUME IInv, Enqueue \/ RestartScheduler
  PROVE  IInv'
<1>1. UNCHANGED <<clock, delays, appts, edits, log, sends, pc, todo, tenant, now, type, batch, pending,
                  lost, first, scanned, late, failures>>
  BY DEF Enqueue, RestartScheduler, calendar, outside, worker, history
<1>2. due' \in Nat /\ queue' \in Nat /\ faults' \in Nat
  BY TimeAssumption DEF Enqueue, RestartScheduler, IInv, TypeOK
<1>3. TypeOK'
  BY <1>1, <1>2 DEF IInv, TypeOK
<1>4. VisitKnown' /\ SendsKnown' /\ LoggedInTime'
  BY <1>1, VisitUntouched, SendsUntouched, Uncovering DEF IInv, TypeOK
<1> QED
  BY <1>1, <1>3, <1>4 DEF IInv, ScansKnown

-----------------------------------------------------------------------------
(* The worker                                                              *)

LEMMA StartScanStep ==
  ASSUME IInv, StartScan
  PROVE  IInv'
<1>1. UNCHANGED <<clock, delays, due, appts, edits, log, sends, pc, tenant, now, type, batch, pending,
                  faults, lost, first, scanned, late, failures>>
  BY DEF StartScan, calendar, outside, history
<1>2. queue' \in Nat /\ todo' \subseteq Tenants
  BY DEF StartScan, IInv, TypeOK
<1>3. TypeOK'
  BY <1>1, <1>2 DEF IInv, TypeOK
<1>4. VisitKnown' /\ SendsKnown' /\ LoggedInTime'
  BY <1>1, VisitUntouched, SendsUntouched, Uncovering DEF IInv, TypeOK
<1> QED
  BY <1>1, <1>3, <1>4 DEF IInv, ScansKnown

LEMMA VisitTenantStep ==
  ASSUME IInv, VisitTenant
  PROVE  IInv'
<1>1. UNCHANGED <<clock, delays, due, queue, appts, edits, log, sends, batch, faults, lost, first, scanned,
                  late, failures>>
  BY DEF VisitTenant, schedule, calendar, outside, history
<1>2. /\ pc = "loop" /\ pc' = "list" /\ now' = clock /\ type' = "reminder_24h" /\ pending' = {}
      /\ tenant' \in Tenants /\ todo' \subseteq Tenants
  BY DEF VisitTenant, IInv, TypeOK
<1>3. TypeOK'
  BY <1>1, <1>2 DEF IInv, TypeOK, Types
<1>4. VisitKnown'
  BY <1>1, <1>2 DEF IInv, TypeOK, VisitKnown, Listed
<1>5. pending = {}
  BY <1>2 DEF IInv, VisitKnown
<1>6. SendsKnown'
  BY <1>1, <1>2, <1>5, SendsUntouched DEF IInv
<1>7. LoggedInTime'
  BY <1>1, Uncovering DEF IInv
<1> QED
  BY <1>1, <1>3, <1>4, <1>6, <1>7 DEF IInv, ScansKnown

(* Both ways a window gets listed. *)
LEMMA ListingStep ==
  ASSUME IInv, ListWindow \/ NextWindow
  PROVE  IInv'
<1>1. UNCHANGED <<clock, delays, due, queue, appts, edits, log, sends, todo, tenant, now, pending, faults, lost,
                  first, scanned, late, failures>>
  BY DEF ListWindow, NextWindow, schedule, calendar, outside, history
<1>2. /\ pc' = "send" /\ type' \in Types
      /\ batch' = InNextInterval(type') /\ batch' \subseteq Appts
      /\ pc \in {"list", "send"}
  BY DEF ListWindow, NextWindow, InNextInterval, IInv, TypeOK, Types
<1>3. TypeOK'
  BY <1>1, <1>2 DEF IInv, TypeOK
<1>4. VisitKnown'
  <2>1. /\ tenant \in Tenants /\ now <= clock
        /\ \A x \in pending : TenantOf[x[1]] = tenant
        /\ \A a \in batch' : TenantOf[a] = tenant /\ appts[a].status = Confirmed /\ InWindow(a, type')
    BY <1>2 DEF IInv, VisitKnown, InNextInterval
  <2> SUFFICES ASSUME NEW a \in Appts, NEW ty \in Types, Listed(ty)', TenantOf[a] = tenant,
                      appts[a].status = Confirmed, appts[a].since < now, InWindow(a, ty)
               PROVE  <<a, ty>> \in log \cup pending \/ (ty = type' /\ a \in batch')
    BY <1>1, <1>2, <2>1 DEF VisitKnown, InWindow, Instant
  <2>2. CASE ty = type'
    BY <1>2, <2>2 DEF InNextInterval
  <2>3. CASE ty # type'
    <3>1. ty = "reminder_24h" /\ type' = "reminder_2h"
      BY <1>2, <2>3 DEF Listed, Types
    <3>2. CASE NextWindow
      BY <3>1, <3>2 DEF NextWindow, IInv, VisitKnown, Listed
    <3>3. CASE ListWindow
      BY <3>1, <3>3 DEF ListWindow, IInv, VisitKnown
    <3> QED
      BY <3>2, <3>3
  <2> QED
    BY <2>2, <2>3
<1>5. SendsKnown' /\ LoggedInTime'
  BY <1>1, SendsUntouched, Uncovering DEF IInv
<1> QED
  BY <1>1, <1>3, <1>4, <1>5 DEF IInv, ScansKnown

LEMMA RemindStep ==
  ASSUME IInv, Remind
  PROVE  IInv'
<1>1. UNCHANGED <<clock, delays, due, queue, appts, edits, log, pc, todo, tenant, now, type, faults, lost,
                  first, scanned, late, failures>>
  BY DEF Remind, schedule, calendar, history
<1>2. PICK a \in batch :
        /\ batch' = batch \ {a}
        /\ IF AlreadySent(<<a, type>>)
           THEN UNCHANGED <<sends, pending>>
           ELSE /\ sends' = [sends EXCEPT ![<<a, type>>] = @ + 1]
                /\ pending' = pending \cup {<<a, type>>}
  BY DEF Remind
<1>3. a \in Appts /\ type \in Types /\ TenantOf[a] = tenant /\ <<a, type>> \in Reminders /\ pc = "send"
  BY <1>2, PairType DEF Remind, IInv, TypeOK, VisitKnown
<1>4. /\ pending \subseteq pending'
      /\ pending' \subseteq pending \cup {<<a, type>>}
      /\ <<a, type>> \in log \cup pending'
  BY <1>2 DEF AlreadySent
<1>5. TypeOK'
  <2>1. sends' \in [Reminders -> Nat]
    BY <1>2, <1>3 DEF IInv, TypeOK
  <2> QED
    BY <1>1, <1>2, <1>3, <1>4, <2>1 DEF IInv, TypeOK
<1>6. VisitKnown'
  <2>1. /\ tenant \in Tenants /\ now <= clock
        /\ \A x \in pending' : TenantOf[x[1]] = tenant
        /\ \A b \in batch' :
             /\ TenantOf[b] = tenant
             /\ \/ appts[b].status = Confirmed /\ InWindow(b, type)
                \/ appts[b].since >= now
    BY <1>2, <1>3, <1>4 DEF IInv, VisitKnown
  <2> SUFFICES ASSUME NEW b \in Appts, NEW ty \in Types, Listed(ty), TenantOf[b] = tenant,
                      appts[b].status = Confirmed, appts[b].since < now, InWindow(b, ty)
               PROVE  <<b, ty>> \in log \cup pending' \/ (ty = type /\ b \in batch')
    BY <1>1, <1>3, <2>1 DEF VisitKnown, InWindow, Instant, Listed
  <2>2. <<b, ty>> \in log \cup pending \/ (ty = type /\ b \in batch)
    BY DEF IInv, VisitKnown
  <2> QED
    BY <1>2, <1>4, <2>2
<1>7. SendsKnown'
  <2> SUFFICES ASSUME NEW x \in Reminders
               PROVE  /\ sends'[x] <= failures[TenantOf[x[1]]] + (IF x \in log \cup pending' THEN 1 ELSE 0)
                      /\ x \in log \cup pending' => sends'[x] > 0
    BY <1>1 DEF SendsKnown
  <2>1. /\ sends \in [Reminders -> Nat]
        /\ failures[TenantOf[x[1]]] \in Nat
    BY TenantAssumption DEF IInv, TypeOK, Reminders
  <2>2. /\ sends[x] <= failures[TenantOf[x[1]]] + (IF x \in log \cup pending THEN 1 ELSE 0)
        /\ x \in log \cup pending => sends[x] > 0
    BY DEF IInv, SendsKnown
  <2>3. CASE AlreadySent(<<a, type>>)
    BY <1>2, <2>2, <2>3
  <2>4. CASE ~AlreadySent(<<a, type>>) /\ x = <<a, type>>
    <3>1. sends'[x] = sends[x] + 1 /\ x \notin log \cup pending /\ x \in log \cup pending'
      BY <1>2, <2>1, <2>4 DEF AlreadySent
    <3> QED
      BY <2>1, <2>2, <3>1
  <2>5. CASE ~AlreadySent(<<a, type>>) /\ x # <<a, type>>
    <3>1. sends'[x] = sends[x] /\ (x \in log \cup pending' <=> x \in log \cup pending)
      BY <1>2, <2>1, <2>5
    <3> QED
      BY <2>2, <3>1
  <2> QED
    BY <2>3, <2>4, <2>5
<1>8. LoggedInTime'
  BY <1>1, Uncovering DEF IInv
<1> QED
  BY <1>1, <1>5, <1>6, <1>7, <1>8 DEF IInv, ScansKnown

(* A visit that is over is known: nothing is. *)
LEMMA LeftKnown ==
  ASSUME Leave, pc' = "loop"
  PROVE  VisitKnown'
  BY DEF Leave, VisitKnown, Listed

LEMMA CommitScanStep ==
  ASSUME IInv, CommitScan
  PROVE  IInv'
<1>1. UNCHANGED <<clock, delays, due, queue, appts, edits, sends, todo, faults, lost, failures>>
  BY DEF CommitScan, schedule, calendar
<1>2. /\ pc = "send" /\ batch = {} /\ type = "reminder_2h" /\ pc' = "loop" /\ Leave
      /\ log' = log \cup pending /\ pending' = {}
      /\ tenant \in Tenants /\ now \in Nat /\ now <= clock
  BY DEF CommitScan, IInv, TypeOK, VisitKnown, Leave
<1>3. /\ first' = [first EXCEPT ![tenant] = IF @ = None THEN now ELSE @]
      /\ scanned' = [scanned EXCEPT ![tenant] = now]
      /\ late' = [late EXCEPT ![tenant] = @ \/ (scanned[tenant] # None /\ now > scanned[tenant] + Interval)]
  BY DEF CommitScan
<1>4. /\ first' \in [Tenants -> Nat \cup {None}]
      /\ scanned' \in [Tenants -> Nat \cup {None}]
      /\ late' \in [Tenants -> BOOLEAN]
  BY <1>2, <1>3 DEF IInv, TypeOK
<1>5. TypeOK'
  BY <1>1, <1>2, <1>4 DEF IInv, TypeOK, Leave, Types
<1>6. VisitKnown'
  BY <1>2, LeftKnown
<1>7. SendsKnown'
  BY <1>1, <1>2 DEF IInv, SendsKnown
<1>8. ScansKnown'
  BY <1>1, <1>2, <1>3, NoneIsNoTime DEF IInv, TypeOK, ScansKnown
<1>9. LoggedInTime'
  <2> SUFFICES ASSUME NEW a \in Appts, NEW ty \in Types, Expected(a, ty)', ~late'[TenantOf[a]]
               PROVE  <<a, ty>> \in log'
    BY DEF LoggedInTime
  <2>1. TenantOf[a] \in Tenants /\ appts[a] \in Row
    BY TenantAssumption DEF IInv, TypeOK
  <2>2. CASE TenantOf[a] # tenant
    BY <1>1, <1>2, <1>3, <2>1, <2>2 DEF Expected, Instant, IInv, TypeOK, LoggedInTime
  <2>3. CASE TenantOf[a] = tenant
    <3> DEFINE i == Instant(a, ty)
    <3>0. appts[a].start \in Int /\ Offset(ty) \in Nat /\ appts[a].since \in Nat
      BY <2>1, OffsetType, TimeAssumption DEF Row
    <3>1. i \in Int /\ appts[a].since \in Nat /\ Interval \in Nat
      BY <3>0, TimeAssumption DEF Instant
    <3>2. /\ appts[a].status = Confirmed
          /\ appts[a].since + Interval <= i
          /\ first'[tenant] <= i
          /\ i < now + Interval
      BY <1>1, <1>2, <1>3, <2>3 DEF Expected, Instant, IInv, TypeOK
    <3>3. ~late[tenant] /\ (scanned[tenant] # None => ~(now > scanned[tenant] + Interval))
      <4>1. late'[tenant] = (late[tenant] \/ (scanned[tenant] # None /\ now > scanned[tenant] + Interval))
        BY <1>2, <1>3 DEF IInv, TypeOK
      <4>2. ~late'[tenant]
        BY <2>3
      <4> QED
        BY <4>1, <4>2
    <3>4. CASE scanned[tenant] # None /\ i < scanned[tenant] + Interval
      <4>1. first[tenant] # None /\ first'[tenant] = first[tenant]
        BY <1>2, <1>3, <3>4 DEF IInv, TypeOK, ScansKnown
      <4>2. Expected(a, ty)
        BY <2>3, <3>2, <3>4, <4>1 DEF Expected
      <4> QED
        BY <1>2, <2>3, <3>3, <4>2 DEF IInv, LoggedInTime
    <3>5. CASE scanned[tenant] = None \/ ~(i < scanned[tenant] + Interval)
      <4>1. now <= i
        <5>1. CASE scanned[tenant] = None
          <6>1. first[tenant] = None /\ first'[tenant] = now
            BY <1>2, <1>3, <5>1 DEF IInv, TypeOK, ScansKnown
          <6> QED
            BY <3>2, <6>1
        <5>2. CASE scanned[tenant] # None
          <6>1. scanned[tenant] \in Nat /\ ~(i < scanned[tenant] + Interval)
            BY <1>2, <3>5, <5>2 DEF IInv, TypeOK
          <6>2. ~(now > scanned[tenant] + Interval)
            BY <3>3, <5>2
          <6> HIDE DEF i
          <6> QED
            BY <1>2, <3>1, <6>1, <6>2
        <5> QED
          BY <5>1, <5>2
      <4>2. appts[a].since < now /\ i < now + Interval
        <5> HIDE DEF i
        <5> QED
          BY <1>2, <3>1, <3>2
      <4>3. InWindow(a, ty)
        BY <4>1, <4>2 DEF InWindow
      <4>4. Listed(ty)
        BY <1>2 DEF Listed, Types
      <4>5. <<a, ty>> \in log \cup pending
        BY <1>2, <2>3, <3>2, <4>2, <4>3, <4>4 DEF IInv, VisitKnown
      <4> QED
        BY <1>2, <4>5
    <3> QED
      BY <3>4, <3>5
  <2> QED
    BY <2>2, <2>3
<1> QED
  BY <1>5, <1>6, <1>7, <1>8, <1>9 DEF IInv

LEMMA FailureStep ==
  ASSUME IInv, FailTenant \/ LoseWorker
  PROVE  IInv'
<1>1. UNCHANGED <<clock, delays, due, queue, appts, edits, log, sends, first, scanned, late>>
  BY DEF FailTenant, LoseWorker, schedule, calendar, outside
<1>2. /\ pc' = "loop" /\ Leave /\ pending' = {}
      /\ todo' \subseteq Tenants /\ faults' \in Nat /\ lost' \in BOOLEAN
  <2>1. CASE FailTenant
    BY <2>1 DEF FailTenant, Leave, IInv, TypeOK
  <2>2. CASE LoseWorker
    BY <2>2 DEF LoseWorker, Leave, IInv, TypeOK
  <2> QED
    BY <2>1, <2>2
<1>0. pc # "loop" => pc \in {"list", "send"}
  BY DEF IInv, TypeOK
<1>3. \/ pc # "loop" /\ tenant \in Tenants /\ failures' = [failures EXCEPT ![tenant] = @ + 1]
      \/ pc = "loop" /\ failures' = failures
  BY <1>0 DEF FailTenant, LoseWorker, IInv, VisitKnown
<1>4. failures' \in [Tenants -> Nat]
  BY <1>3 DEF IInv, TypeOK
<1>5. TypeOK'
  BY <1>1, <1>2, <1>4 DEF IInv, TypeOK, Leave, Types
<1>6. VisitKnown'
  BY <1>2, LeftKnown
<1>7. SendsKnown'
  <2> SUFFICES ASSUME NEW x \in Reminders
               PROVE  /\ sends[x] <= failures'[TenantOf[x[1]]] + (IF x \in log THEN 1 ELSE 0)
                      /\ x \in log => sends[x] > 0
    BY <1>1, <1>2 DEF SendsKnown
  <2> DEFINE t == TenantOf[x[1]]
  <2>1. t \in Tenants /\ sends[x] \in Nat /\ failures[t] \in Nat
    BY TenantAssumption DEF IInv, TypeOK, Reminders
  <2>2. sends[x] <= failures[t] + (IF x \in log \cup pending THEN 1 ELSE 0)
    BY DEF IInv, SendsKnown
  <2>3. x \in pending => pc # "loop" /\ t = tenant
    BY DEF IInv, TypeOK, VisitKnown
  <2>4. failures'[t] = failures[t] \/ failures'[t] = failures[t] + 1
    BY <1>3, <2>1 DEF IInv, TypeOK
  <2>5. x \in pending => failures'[t] = failures[t] + 1
    BY <1>3, <2>1, <2>3 DEF IInv, TypeOK
  <2> HIDE DEF t
  <2>6. sends[x] <= failures'[t] + (IF x \in log THEN 1 ELSE 0)
    BY <2>1, <2>2, <2>4, <2>5
  <2> QED
    BY <2>6 DEF t, IInv, SendsKnown
<1>8. LoggedInTime'
  BY <1>1, Uncovering DEF IInv
<1> QED
  BY <1>1, <1>5, <1>6, <1>7, <1>8 DEF IInv, ScansKnown

-----------------------------------------------------------------------------
(* The theorems                                                            *)

LEMMA StepKnown ==
  ASSUME IInv, [Next]_vars
  PROVE  IInv'
<1>1. CASE Work
  BY <1>1, StartScanStep, VisitTenantStep, ListingStep, RemindStep, CommitScanStep DEF Work
<1>2. CASE UNCHANGED vars
  <2>1. UNCHANGED <<clock, delays, due, queue, appts, edits, log, sends, pc, todo, tenant, now, type, batch,
                    pending, faults, lost, first, scanned, late, failures>>
    BY <1>2 DEF vars, schedule, calendar, outside, worker, history
  <2>2. TypeOK' /\ ScansKnown'
    BY <2>1 DEF IInv, TypeOK, ScansKnown
  <2> QED
    BY <2>1, <2>2, VisitUntouched, SendsUntouched, Uncovering DEF IInv, TypeOK
<1>3. CASE \E a \in Appts : SetStatus(a) \/ Move(a)
  BY <1>3, SetStatusStep, MoveStep
<1> QED
  BY <1>1, <1>2, <1>3, PassTimeStep, SchedulerStep, FailureStep DEF Next

(* What the worker knows at every place of a scan. *)
THEOREM Invariant == Spec => []IInv
  BY InitKnown, StepKnown, PTL DEF Spec

(* Every variable stays in its type. *)
THEOREM TypeCorrect == Spec => []TypeOK
<1>1. IInv => TypeOK
  BY DEF IInv
<1> QED
  BY <1>1, Invariant, PTL

(* config.py: with the window as long as the interval, a reminder is missed *)
(* only where two scans of its company were more than an interval apart,    *)
(* for any interval and offsets, and whatever happens to other companies.   *)
THEOREM NobodyForgotten == Spec => []RemindedInTime
<1>1. IInv => RemindedInTime
  BY PairType DEF IInv, LoggedInTime, SendsKnown, RemindedInTime
<1> QED
  BY <1>1, Invariant, PTL

(* notification_service.py: the guard and the one commit per company repeat *)
(* a reminder only after a scan that was lost.                              *)
THEOREM RepeatsFollowFailures == Spec => []ResentOnlyAfterFailure
<1>1. IInv => ResentOnlyAfterFailure
  <2> SUFFICES ASSUME IInv, NEW x \in Reminders
               PROVE  sends[x] <= 1 + failures[TenantOf[x[1]]]
    BY DEF ResentOnlyAfterFailure
  <2>1. sends[x] \in Nat /\ failures[TenantOf[x[1]]] \in Nat
    BY TenantAssumption DEF IInv, TypeOK, Reminders
  <2>2. sends[x] <= failures[TenantOf[x[1]]] + (IF x \in log \cup pending THEN 1 ELSE 0)
    BY DEF IInv, SendsKnown
  <2> QED
    BY <2>1, <2>2
<1> QED
  BY <1>1, Invariant, PTL

LEMMA StepRemindsTheConfirmed ==
  ASSUME IInv, [Next]_vars, NEW a \in Appts, NEW ty \in Types, sends'[<<a, ty>>] # sends[<<a, ty>>]
  PROVE  (appts[a].status = Confirmed /\ InWindow(a, ty)) \/ appts[a].since >= now
<1>1. sends' # sends
  OBVIOUS
<1>2. Remind
  BY <1>1 DEF Next, vars, outside, Work, PassTime, SetStatus, Move, Change, Enqueue, RestartScheduler,
     StartScan, VisitTenant, ListWindow, NextWindow, CommitScan, FailTenant, LoseWorker
<1>3. PICK b \in batch :
        IF AlreadySent(<<b, type>>)
        THEN UNCHANGED <<sends, pending>>
        ELSE sends' = [sends EXCEPT ![<<b, type>>] = @ + 1]
  BY <1>2 DEF Remind
<1>4. b = a /\ type = ty
  <2>1. sends \in [Reminders -> Nat] /\ <<a, ty>> \in Reminders
    BY PairType DEF IInv, TypeOK
  <2>2. <<b, type>> = <<a, ty>>
    BY <1>3, <2>1
  <2> QED
    BY <2>2
<1> QED
  BY <1>3, <1>4 DEF IInv, VisitKnown

(* reminders.py: the list is taken once and messaged one by one; what it    *)
(* messages is confirmed and due, or was changed during the visit.          *)
THEOREM RemindersAreTrue == Spec => RemindsTheConfirmed
<1>1. IInv /\ [Next]_vars =>
        [\A a \in Appts, ty \in Types :
           sends'[<<a, ty>>] # sends[<<a, ty>>] =>
             \/ appts[a].status = Confirmed /\ InWindow(a, ty)
             \/ appts[a].since >= now]_vars
  BY StepRemindsTheConfirmed
<1> QED
  BY <1>1, Invariant, PTL DEF Spec, RemindsTheConfirmed
=============================================================================
