---------------------- MODULE AppointmentServiceProofs ----------------------
(***************************************************************************)
(* Proofs about AppointmentService, for any number of sessions, rows,      *)
(* entries and requests.                                                   *)
(*                                                                         *)
(* One inductive invariant, IInv, carries every theorem.  Type correctness *)
(* and SessionsOK (what a session knows at each place, what an uncommitted *)
(* row version may differ in from the row, and that row locks keep two     *)
(* writers apart) are preserved together, first.  On top of them           *)
(* GrantedSlotsDisjoint is what makes a commit harmless: NoDoubleBooking   *)
(* alone is not inductive, because nothing in it says what a request that  *)
(* is about to commit holds.                                               *)
(***************************************************************************)
EXTENDS AppointmentService, TLAPS

(* Which of two clashing rows comes first does not matter. *)
LEMMA ClashSymmetric ==
  ASSUME NEW r, NEW q, Clash(r, q)
  PROVE  Clash(q, r)
  BY DEF Clash, SameResource, RangesOverlap

(* Giving a request up stores nothing. *)
LEMMA RollbackType ==
  ASSUME TypeOK, NEW s \in Sessions, Rollback(s)
  PROVE  TypeOK'
  BY DEF TypeOK, Rollback, Goto, Steps, stored

(* The request of an arrival: what it asks for is well formed, and it is    *)
(* about an id nobody has used or about a row that is there.                *)
IsArrival(s, r, step) ==
  /\ Admit(s, r, step)
  /\ r.op \in Creations => FreshId(r.appt) /\ UNCHANGED snap
  /\ r.op \notin Creations => /\ appts[r.appt] # NoRow
                             /\ snap' = [snap EXCEPT ![s] = appts[r.appt]]
  /\ step = "load" => r.op = "reschedule" /\ r.start \in Starts

(* Each kind of request arrives that way. *)
LEMMA Arrival ==
  ASSUME TypeOK, NEW s \in Sessions, Arrive(s)
  PROVE  \E r \in Request, step \in {"check", "load", "write"} : IsArrival(s, r, step)
<1>1. CASE StartCreate(s)
  <2>1. PICK op \in Creations \cap Offered, a \in Appts, e \in Employees, o \in Rooms \cup {NoRoom}, t \in Starts :
           /\ FreshId(a)
           /\ Admit(s, [op |-> op, appt |-> a, employee |-> e,
                        room |-> IF service.requiresRoom THEN o ELSE NoRoom,
                        start |-> t, end |-> t + service.duration], "check")
    BY <1>1 DEF StartCreate
  <2>2. t \in Times /\ t + service.duration \in Times
    BY TimesCoverRequests DEF TypeOK
  <2>3. [op |-> op, appt |-> a, employee |-> e,
         room |-> IF service.requiresRoom THEN o ELSE NoRoom,
         start |-> t, end |-> t + service.duration] \in Request
    BY <2>2 DEF Request, Operations
  <2> QED
    BY <1>1, <2>1, <2>3 DEF StartCreate, IsArrival
<1>2. CASE StartTransition(s)
  <2>1. PICK op \in Transitions \cap Offered, a \in Appts :
           /\ appts[a] # NoRow
           /\ Admit(s, [op |-> op, appt |-> a, employee |-> appts[a].employee,
                        room |-> appts[a].room, start |-> appts[a].start,
                        end |-> appts[a].end], "write")
           /\ snap' = [snap EXCEPT ![s] = appts[a]]
    BY <1>2 DEF StartTransition
  <2>2. [op |-> op, appt |-> a, employee |-> appts[a].employee,
         room |-> appts[a].room, start |-> appts[a].start, end |-> appts[a].end] \in Request
    BY <2>1 DEF Request, Operations, Row, TypeOK
  <2> QED
    BY <2>1, <2>2 DEF IsArrival, Creations, Transitions
<1>3. CASE StartReschedule(s)
  <2>1. PICK a \in Appts, t \in Starts :
           /\ appts[a] # NoRow
           /\ Admit(s, [op |-> "reschedule", appt |-> a, employee |-> appts[a].employee,
                        room |-> appts[a].room, start |-> t, end |-> appts[a].end], "load")
           /\ snap' = [snap EXCEPT ![s] = appts[a]]
    BY <1>3 DEF StartReschedule
  <2>2. t \in Times
    BY TimesCoverRequests DEF TypeOK
  <2>3. [op |-> "reschedule", appt |-> a, employee |-> appts[a].employee,
         room |-> appts[a].room, start |-> t, end |-> appts[a].end] \in Request
    BY <2>1, <2>2 DEF Request, Operations, Row, TypeOK
  <2> QED
    BY <2>1, <2>3 DEF IsArrival, Creations
<1> QED
  BY <1>1, <1>2, <1>3 DEF Arrive

(* An arriving request is well formed. *)
LEMMA ArriveType ==
  ASSUME TypeOK, NEW s \in Sessions, Arrive(s)
  PROVE  TypeOK'
<1>1. PICK r \in Request, step \in {"check", "load", "write"} : IsArrival(s, r, step)
  BY Arrival
<1>2. began' \in 0..MaxRequests
  BY <1>1, MaxRequestsAssumption DEF IsArrival, Admit, TypeOK
<1>3. snap' \in [Sessions -> Row \cup {NoRow}]
  BY <1>1 DEF IsArrival, TypeOK, Request
<1> QED
  BY <1>1, <1>2, <1>3 DEF TypeOK, IsArrival, Admit, Goto, Steps, stored

(* A session that is not idle serves a request. *)
LEMMA RequestUnderWay ==
  ASSUME TypeOK, SessionsOK, NEW s \in Sessions, pc[s] # "idle"
  PROVE  req[s] \in Request
  BY DEF TypeOK, SessionsOK, SessionShape

(* The version an INSERT or UPDATE leaves is a row. *)
LEMMA NewVersionRow ==
  ASSUME TypeOK, SessionsOK, NEW s \in Sessions, pc[s] = "write"
  PROVE  NewVersion(s) \in Row
<1>1. pc[s] # "idle" /\ req[s] \in Request
  BY RequestUnderWay
<1>2. CASE req[s].op \in Creations
  BY <1>1, <1>2 DEF NewVersion, Row, Request, InitialStatus, Statuses, Creations, Transitions
<1>3. CASE req[s].op \notin Creations
  <2>1. appts[req[s].appt] \in Row
    BY <1>1, <1>3 DEF SessionsOK, SessionShape, TypeOK, Request
  <2> QED
    BY <1>1, <1>3, <2>1 DEF NewVersion, Row, Request, Target, Statuses
<1> QED
  BY <1>2, <1>3

(* A flush leaves a row where the session keeps its version. *)
LEMMA WriteRowType ==
  ASSUME TypeOK, SessionsOK, NEW s \in Sessions, WriteRow(s)
  PROVE  TypeOK'
<1>1. NewVersion(s) \in Row
  BY NewVersionRow DEF WriteRow
<1> QED
  BY <1>1 DEF TypeOK, WriteRow, Goto, Steps, stored

(* A move ends within the times rows carry. *)
LEMMA LoadServiceType ==
  ASSUME TypeOK, SessionsOK, NEW s \in Sessions, LoadService(s)
  PROVE  TypeOK'
<1>1. req[s] \in Request /\ pc[s] = "load" /\ pc[s] # "idle"
  BY RequestUnderWay DEF LoadService
<1>2. req[s].start \in Starts
  BY <1>1 DEF SessionsOK, SessionShape
<1>3. req[s].start + service.duration \in Times
  BY <1>2, TimesCoverRequests DEF TypeOK
<1> QED
  BY <1>1, <1>3 DEF TypeOK, LoadService, Goto, Steps, stored, Request

(* A move that changes nothing flushes nothing. *)
LEMMA SkipWriteType ==
  ASSUME TypeOK, SessionsOK, NEW s \in Sessions, SkipWrite(s)
  PROVE  TypeOK'
<1>1. req[s] \in Request
  BY RequestUnderWay DEF SkipWrite
<1> QED
  BY <1>1 DEF TypeOK, SkipWrite, Goto, Steps, stored, Request

(* The row a notification is about is a row. *)
LEMMA RefetchedRow ==
  ASSUME TypeOK, SessionsOK, NEW s \in Sessions, pc[s] = "notify"
  PROVE  req[s] \in Request /\ Refetched(s) \in Row
<1>1. req[s] \in Request /\ pc[s] # "idle"
  BY RequestUnderWay
<1>2. CASE new[s] # NoRow
  BY <1>1, <1>2 DEF TypeOK, Refetched
<1>3. CASE new[s] = NoRow
  <2>1. req[s].op = "reschedule"
    BY <1>1, <1>3 DEF SessionsOK, SessionShape
  <2>2. snap[s] # NoRow
    BY <1>1, <2>1 DEF SessionsOK, SessionShape, Creations
  <2> QED
    BY <1>1, <1>3, <2>2 DEF TypeOK, Refetched
<1> QED
  BY <1>2, <1>3

(* A message names an appointment and a time of its row. *)
LEMMA NotifyType ==
  ASSUME TypeOK, SessionsOK, NEW s \in Sessions, Notify(s)
  PROVE  TypeOK'
<1>1. req[s] \in Request /\ Refetched(s) \in Row
  BY RefetchedRow DEF Notify
<1>2. [type |-> NoticeType(req[s].op), to |-> req[s].appt, start |-> Refetched(s).start] \in Notice
  BY <1>1 DEF Notice, NoticeType, Request, Row
<1>3. StepAfterNotice(req[s].op) \in Steps
  BY DEF StepAfterNotice, Steps
<1> QED
  BY <1>2, <1>3 DEF TypeOK, Notify, Goto, stored

(* An offer names an entry and the time of the freed slot. *)
LEMMA OfferType ==
  ASSUME TypeOK, SessionsOK, NEW s \in Sessions, Offer(s)
  PROVE  TypeOK'
<1>1. new[s] \in Row /\ match[s] \in Entries
  BY DEF Offer, SessionsOK, SessionShape, AfterMatch, TypeOK
<1>2. [type |-> "waitlist_promotion", to |-> match[s], start |-> new[s].start] \in Notice
  BY <1>1 DEF Notice, Row
<1> QED
  BY <1>2 DEF TypeOK, Offer, Goto, Steps, stored

(* The entry picked is an entry. *)
LEMMA FindMatchType ==
  ASSUME TypeOK, NEW s \in Sessions, FindMatch(s)
  PROVE  TypeOK'
<1>1. /\ match' \in [Sessions -> Entries \cup {NoEntry}]
      /\ pc' \in [Sessions -> Steps]
  BY DEF FindMatch, TypeOK, Goto, Steps
<1> QED
  BY <1>1 DEF TypeOK, FindMatch, stored

(* A commit stores a row, a history row and a waitlist row. *)
LEMMA CommitType ==
  ASSUME TypeOK, SessionsOK, NEW s \in Sessions, Commit(s)
  PROVE  TypeOK'
<1>1. req[s] \in Request /\ pc[s] = "commit" /\ pc[s] # "idle"
  BY RequestUnderWay DEF Commit
<1>2. appts' \in [Appts -> Row \cup {NoRow}]
  BY DEF Commit, TypeOK
<1>3. history' \in [Appts -> Seq(HistoryRow)]
  <2>1. CASE req[s].op = "reschedule"
    BY <2>1 DEF Commit, TypeOK
  <2>2. CASE req[s].op # "reschedule"
    <3>1. new[s] \in Row
      BY <1>1, <2>2 DEF SessionsOK, SessionShape, TypeOK
    <3>2. req[s].op \notin Creations => snap[s] \in Row
      BY <1>1 DEF SessionsOK, SessionShape, TypeOK
    <3>3. HistoryEntry(s) \in HistoryRow
      BY <3>1, <3>2 DEF HistoryEntry, HistoryRow, Row
    <3> QED
      BY <1>1, <2>2, <3>3 DEF Commit, TypeOK, Request
  <2> QED
    BY <2>1, <2>2
<1>4. waitlist' \in [Entries -> WaitlistRow \cup {NoEntry}]
  <2>1. CASE match[s] = NoEntry
    BY <2>1 DEF Commit, TypeOK
  <2>2. CASE match[s] # NoEntry
    <3>1. match[s] \in Entries /\ waitlist[match[s]] \in WaitlistRow
      BY <2>2 DEF SessionsOK, SessionShape, TypeOK
    <3>2. [waitlist[match[s]] EXCEPT !.status = Promoted] \in WaitlistRow
      BY <3>1 DEF WaitlistRow
    <3>3. waitlist' = [waitlist EXCEPT ![match[s]].status = Promoted]
      BY <2>2 DEF Commit, WithPromotion
    <3> QED
      BY <3>1, <3>2, <3>3 DEF TypeOK
  <2> QED
    BY <2>1, <2>2
<1> QED
  BY <1>2, <1>3, <1>4 DEF TypeOK, Commit, Goto, Steps

(* A new waitlist row is one. *)
LEMMA JoinType ==
  ASSUME TypeOK, NEW e \in Entries, Join(e)
  PROVE  TypeOK'
<1>1. waitlist' \in [Entries -> WaitlistRow \cup {NoEntry}]
  <2>1. PICK w \in Wishes : waitlist' = [waitlist EXCEPT ![e] =
          [employee |-> w.employee, from |-> w.from, to |-> w.to, status |-> Waiting]]
    BY DEF Join, JoinWaitlist
  <2>2. [employee |-> w.employee, from |-> w.from, to |-> w.to, status |-> Waiting] \in WaitlistRow
    BY WishesAssumption DEF Wish, WaitlistRow
  <2> QED
    BY <2>1, <2>2 DEF TypeOK
<1> QED
  BY <1>1 DEF TypeOK, Join, requested

(* A cancelled waitlist row is one. *)
LEMMA LeaveWaitlistType ==
  ASSUME TypeOK, NEW e \in Entries, LeaveWaitlist(e)
  PROVE  TypeOK'
<1>1. waitlist[e] \in WaitlistRow
  BY DEF TypeOK, LeaveWaitlist, CancelWaitlistEntry
<1>2. [waitlist[e] EXCEPT !.status = Cancelled] \in WaitlistRow
  BY <1>1 DEF WaitlistRow
<1>3. waitlist' \in [Entries -> WaitlistRow \cup {NoEntry}]
  BY <1>1, <1>2 DEF TypeOK, LeaveWaitlist, CancelWaitlistEntry
<1> QED
  BY <1>3 DEF TypeOK, LeaveWaitlist, requested

(* Steps that move one request along and leave every other variable alone. *)
LEMMA StepOnlyType ==
  ASSUME TypeOK, NEW s \in Sessions,
         CheckEmployee(s) \/ CheckRoom(s) \/ PassConstraints(s) \/ PromoteEntry(s)
  PROVE  TypeOK'
<1>1. \E step \in Steps : Goto(s, step)
  <2>1. CASE CheckEmployee(s)
    BY <2>1 DEF CheckEmployee, Steps
  <2>2. CASE CheckRoom(s)
    BY <2>2 DEF CheckRoom, Steps
  <2>3. CASE PassConstraints(s)
    BY <2>3 DEF PassConstraints, StepAfterWrite, Steps
  <2>4. CASE PromoteEntry(s)
    BY <2>4 DEF PromoteEntry, StepAfterPromotion, Steps
  <2> QED
    BY <2>1, <2>2, <2>3, <2>4
<1>2. UNCHANGED <<stored, sent, began, req, snap, new, match>>
  BY DEF CheckEmployee, CheckRoom, PassConstraints, PromoteEntry
<1> QED
  BY <1>1, <1>2 DEF TypeOK, Goto, stored

(* Every step keeps the types. *)
LEMMA TypeStep ==
  ASSUME TypeOK, SessionsOK, [Next]_vars
  PROVE  TypeOK'
<1>1. CASE UNCHANGED vars
  BY <1>1 DEF TypeOK, vars, stored, requested
<1>2. ASSUME NEW s \in Sessions, Arrive(s)
      PROVE  TypeOK'
  BY <1>2, ArriveType
<1>3. ASSUME NEW s \in Sessions, Advance(s)
      PROVE  TypeOK'
  <2>1. CASE RefuseTaken(s) \/ RefuseByConstraints(s) \/ ProviderFails(s) \/ DeadlockVictim(s)
    BY <2>1, RollbackType DEF RefuseTaken, RefuseByConstraints, ProviderFails, DeadlockVictim
  <2>2. CASE CheckEmployee(s) \/ CheckRoom(s) \/ PassConstraints(s) \/ PromoteEntry(s)
    BY <2>2, StepOnlyType
  <2>3. CASE LoadService(s) \/ WriteRow(s) \/ SkipWrite(s)
    BY <2>3, LoadServiceType, WriteRowType, SkipWriteType
  <2>4. CASE Notify(s) \/ FindMatch(s) \/ Offer(s) \/ Commit(s)
    BY <2>4, NotifyType, FindMatchType, OfferType, CommitType
  <2> QED
    BY <1>3, <2>1, <2>2, <2>3, <2>4 DEF Advance
<1>4. ASSUME NEW s \in Sessions, Crash(s)
      PROVE  TypeOK'
  BY <1>4, RollbackType DEF Crash
<1>5. ASSUME NEW e \in Entries, Join(e) \/ LeaveWaitlist(e)
      PROVE  TypeOK'
  BY <1>5, JoinType, LeaveWaitlistType
<1>6. CASE PatchService
  BY <1>6 DEF TypeOK, PatchService, requested
<1> QED
  BY <1>1, <1>2, <1>3, <1>4, <1>5, <1>6 DEF Next

-----------------------------------------------------------------------------
(* A session that gives up forgets everything. *)
LEMMA RollbackSessions ==
  ASSUME TypeOK, SessionsOK, NEW s \in Sessions, Rollback(s)
  PROVE  SessionsOK'
<1>1. ASSUME NEW u \in Sessions
      PROVE  SessionShape(u)' /\ WriteKeeps(u)'
  BY <1>1 DEF TypeOK, SessionsOK, SessionShape, WriteKeeps, Rollback, Goto, stored, BeforeWrite, AfterMatch
<1>2. ASSUME NEW u \in Sessions, NEW v \in Sessions \ {u}
      PROVE  RowsApart(u, v)'
  BY <1>2 DEF TypeOK, SessionsOK, RowsApart, Rollback, Goto, stored
<1> QED
  BY <1>1, <1>2 DEF SessionsOK

(* A step along a request loses no version and gains none. *)
LEMMA StepOnlySessions ==
  ASSUME TypeOK, SessionsOK, NEW s \in Sessions,
         CheckEmployee(s) \/ CheckRoom(s) \/ PassConstraints(s) \/ PromoteEntry(s)
  PROVE  SessionsOK'
<1>1. \E step \in Steps \ {"idle", "load"} :
         /\ Goto(s, step)
         /\ step \in BeforeWrite => pc[s] \in BeforeWrite
         /\ step \notin BeforeWrite => new[s] # NoRow
         /\ step \in AfterMatch => pc[s] \in AfterMatch
  <2>1. CASE CheckEmployee(s)
    BY <2>1 DEF CheckEmployee, Steps, BeforeWrite, AfterMatch
  <2>2. CASE CheckRoom(s)
    BY <2>2 DEF CheckRoom, Steps, BeforeWrite, AfterMatch
  <2>3. CASE PassConstraints(s)
    BY <2>3 DEF PassConstraints, StepAfterWrite, Steps, BeforeWrite, AfterMatch, SessionsOK, SessionShape
  <2>4. CASE PromoteEntry(s)
    BY <2>4 DEF PromoteEntry, StepAfterPromotion, Steps, BeforeWrite, AfterMatch, SessionsOK, SessionShape
  <2> QED
    BY <2>1, <2>2, <2>3, <2>4
<1>2. /\ UNCHANGED <<stored, sent, began, req, snap, new, match>>
      /\ pc[s] # "idle"
  BY DEF CheckEmployee, CheckRoom, PassConstraints, PromoteEntry
<1>3. ASSUME NEW u \in Sessions
      PROVE  SessionShape(u)' /\ WriteKeeps(u)'
  BY <1>1, <1>2 DEF TypeOK, SessionsOK, SessionShape, WriteKeeps, Goto, stored, BeforeWrite, AfterMatch
<1>4. ASSUME NEW u \in Sessions, NEW v \in Sessions \ {u}
      PROVE  RowsApart(u, v)'
  BY <1>1, <1>2 DEF TypeOK, SessionsOK, RowsApart, Goto, stored
<1> QED
  BY <1>3, <1>4 DEF SessionsOK

(* A request that arrives shares its row with no creation. *)
LEMMA ArriveSessions ==
  ASSUME TypeOK, SessionsOK, NEW s \in Sessions, Arrive(s)
  PROVE  SessionsOK'
<1>1. PICK r \in Request, step \in {"check", "load", "write"} : IsArrival(s, r, step)
  BY Arrival
<1>2. /\ pc[s] = "idle" /\ new[s] = NoRow
      /\ pc' = [pc EXCEPT ![s] = step]
      /\ req' = [req EXCEPT ![s] = r]
      /\ UNCHANGED <<appts, waitlist, new, match>>
  BY <1>1 DEF IsArrival, Admit, Goto, stored, SessionsOK, SessionShape, BeforeWrite
<1>3. ASSUME NEW u \in Sessions
      PROVE  SessionShape(u)' /\ WriteKeeps(u)'
  <2>1. CASE u = s
    BY <1>1, <1>2, <2>1, NoRequestAssumption
    DEF IsArrival, TypeOK, SessionsOK, SessionShape, WriteKeeps, BeforeWrite, AfterMatch, FreshId
  <2>2. CASE u # s
    BY <1>1, <1>2, <2>2 DEF IsArrival, TypeOK, SessionsOK, SessionShape, WriteKeeps
  <2> QED
    BY <2>1, <2>2
<1>4. ASSUME NEW u \in Sessions \ {s}, pc[u] # "idle", req[u].appt = r.appt
      PROVE  req[u].op \notin Creations /\ r.op \notin Creations
  BY <1>1, <1>4 DEF IsArrival, SessionsOK, SessionShape, FreshId
<1>5. ASSUME NEW u \in Sessions, NEW v \in Sessions \ {u}
      PROVE  RowsApart(u, v)'
  BY <1>2, <1>4 DEF TypeOK, SessionsOK, RowsApart
<1> QED
  BY <1>3, <1>5 DEF SessionsOK

(* Reading the service changes one bound of the request. *)
LEMMA LoadServiceSessions ==
  ASSUME TypeOK, SessionsOK, NEW s \in Sessions, LoadService(s)
  PROVE  SessionsOK'
<1>1. req[s] \in Request /\ pc[s] = "load" /\ pc[s] # "idle" /\ req[s].op = "reschedule"
  BY RequestUnderWay DEF LoadService, SessionsOK, SessionShape
<1>2. /\ req' = [req EXCEPT ![s] = [req[s] EXCEPT !.end = req[s].start + service.duration]]
      /\ req'[s].op = req[s].op /\ req'[s].appt = req[s].appt
  BY <1>1 DEF LoadService, TypeOK, Request
<1>3. req'[s] # NoRequest
  <2>1. TypeOK'
    BY LoadServiceType
  <2>2. req[s].start \in Starts
    BY <1>1 DEF SessionsOK, SessionShape
  <2>3. req'[s] \in Request
    BY <1>1, <1>2, <2>2, TimesCoverRequests DEF TypeOK, Request
  <2> QED
    BY <2>3, NoRequestAssumption
<1>4. ASSUME NEW u \in Sessions
      PROVE  SessionShape(u)' /\ WriteKeeps(u)'
  BY <1>1, <1>2, <1>3 DEF TypeOK, SessionsOK, SessionShape, WriteKeeps, LoadService, Goto, stored, BeforeWrite, AfterMatch
<1>5. ASSUME NEW u \in Sessions, NEW v \in Sessions \ {u}
      PROVE  RowsApart(u, v)'
  BY <1>1, <1>2 DEF TypeOK, SessionsOK, RowsApart, LoadService, Goto, stored
<1> QED
  BY <1>4, <1>5 DEF SessionsOK

(* The row lock is what keeps two writers of one row apart. *)
LEMMA WriteRowSessions ==
  ASSUME TypeOK, SessionsOK, NEW s \in Sessions, WriteRow(s)
  PROVE  SessionsOK'
<1> DEFINE row == appts[req[s].appt]
<1>1. req[s] \in Request /\ pc[s] = "write" /\ pc[s] # "idle"
  BY RequestUnderWay DEF WriteRow
<1>2. /\ new' = [new EXCEPT ![s] = NewVersion(s)]
      /\ pc' = [pc EXCEPT ![s] = "constrain"]
      /\ UNCHANGED <<appts, waitlist, req, snap, match>>
  BY DEF WriteRow, Goto, stored
<1>3. NewVersion(s) # NoRow
  BY <1>1, NewVersionRow, NoRowAssumption
<1>4. ASSUME NEW u \in Sessions
      PROVE  SessionShape(u)'
  BY <1>1, <1>2, <1>3 DEF TypeOK, SessionsOK, SessionShape, BeforeWrite, AfterMatch
<1>5. WriteKeeps(s)'
  <2> SUFFICES ASSUME row # NoRow
               PROVE  WriteKeeps(s)'
    BY <1>2 DEF WriteKeeps
  <2>1. row \in Row /\ req[s].op \notin Creations
    BY <1>1 DEF SessionsOK, SessionShape, TypeOK, Request
  <2>2. CASE req[s].op \in Transitions
    BY <1>1, <1>2, <2>1, <2>2 DEF WriteKeeps, NewVersion, Row, TypeOK
  <2>3. CASE req[s].op \notin Transitions
    <3>1. req[s].op = "reschedule"
      BY <1>1, <2>1, <2>3 DEF Request, Operations
    <3>2. NewVersion(s) = [row EXCEPT
             !.start = IF req[s].start # snap[s].start THEN req[s].start ELSE @,
             !.end   = IF req[s].end # snap[s].end THEN req[s].end ELSE @]
      BY <2>1, <2>3 DEF NewVersion
    <3>3. /\ NewVersion(s).employee = row.employee
          /\ NewVersion(s).room = row.room
          /\ NewVersion(s).status = row.status
      BY <2>1, <3>2 DEF Row
    <3> QED
      BY <1>2, <3>1, <3>3 DEF WriteKeeps, TypeOK
  <2> QED
    BY <2>2, <2>3
<1>6. ASSUME NEW u \in Sessions
      PROVE  WriteKeeps(u)'
  BY <1>2, <1>5, <1>6 DEF TypeOK, SessionsOK, WriteKeeps
<1>7. ASSUME NEW u \in Sessions, NEW v \in Sessions \ {u}
      PROVE  RowsApart(u, v)'
  BY <1>1, <1>2, <1>7 DEF TypeOK, SessionsOK, RowsApart, WriteRow, HoldsRow
<1> QED
  BY <1>4, <1>6, <1>7 DEF SessionsOK

(* A move without a statement holds no row. *)
LEMMA SkipWriteSessions ==
  ASSUME TypeOK, SessionsOK, NEW s \in Sessions, SkipWrite(s)
  PROVE  SessionsOK'
<1>1. pc[s] = "write" /\ pc[s] # "idle" /\ new[s] = NoRow /\ req[s].op = "reschedule"
  BY DEF SkipWrite, EmitsStatement, SessionsOK, SessionShape, BeforeWrite
<1>2. appts[req[s].appt] # NoRow
  BY <1>1 DEF SessionsOK, SessionShape, Creations
<1>3. /\ pc' = [pc EXCEPT ![s] = "notify"]
      /\ snap' = [snap EXCEPT ![s] = appts[req[s].appt]]
      /\ UNCHANGED <<appts, waitlist, req, new, match>>
  BY DEF SkipWrite, Goto, stored
<1>4. ASSUME NEW u \in Sessions
      PROVE  SessionShape(u)' /\ WriteKeeps(u)'
  BY <1>1, <1>2, <1>3 DEF TypeOK, SessionsOK, SessionShape, WriteKeeps, BeforeWrite, AfterMatch
<1>5. ASSUME NEW u \in Sessions, NEW v \in Sessions \ {u}
      PROVE  RowsApart(u, v)'
  BY <1>1, <1>3 DEF TypeOK, SessionsOK, RowsApart
<1> QED
  BY <1>4, <1>5 DEF SessionsOK

(* A message moves the request along. *)
LEMMA NotifySessions ==
  ASSUME TypeOK, SessionsOK, NEW s \in Sessions, Notify(s) \/ Offer(s)
  PROVE  SessionsOK'
<1>1. PICK step \in {"match", "commit"} :
         /\ pc' = [pc EXCEPT ![s] = step]
         /\ step = "match" => req[s].op \in {"cancel", "no_show"}
  BY DEF Notify, Offer, Goto, StepAfterNotice
<1>2. /\ pc[s] \in {"notify", "offer"} /\ pc[s] # "idle"
      /\ UNCHANGED <<appts, waitlist, req, snap, new, match>>
      /\ pc[s] = "offer" => new[s] # NoRow
  BY DEF Notify, Offer, stored, SessionsOK, SessionShape, AfterMatch
<1>3. step = "match" => new[s] # NoRow
  BY <1>1, <1>2 DEF SessionsOK, SessionShape
<1>4. ASSUME NEW u \in Sessions
      PROVE  SessionShape(u)' /\ WriteKeeps(u)'
  BY <1>1, <1>2, <1>3 DEF TypeOK, SessionsOK, SessionShape, WriteKeeps, BeforeWrite, AfterMatch
<1>5. ASSUME NEW u \in Sessions, NEW v \in Sessions \ {u}
      PROVE  RowsApart(u, v)'
  BY <1>1, <1>2 DEF TypeOK, SessionsOK, RowsApart
<1> QED
  BY <1>4, <1>5 DEF SessionsOK

(* The entry picked exists, and entries never go away. *)
LEMMA FindMatchSessions ==
  ASSUME TypeOK, SessionsOK, NEW s \in Sessions, FindMatch(s)
  PROVE  SessionsOK'
<1>1. /\ pc[s] = "match" /\ pc[s] # "idle" /\ new[s] # NoRow
      /\ UNCHANGED <<appts, waitlist, req, snap, new>>
  BY DEF FindMatch, stored, SessionsOK, SessionShape
<1>2. \/ \E e \in Entries : /\ waitlist[e] # NoEntry
                            /\ match' = [match EXCEPT ![s] = e]
                            /\ pc' = [pc EXCEPT ![s] = "promote"]
      \/ match' = match /\ pc' = [pc EXCEPT ![s] = "commit"]
  BY DEF FindMatch, Goto, IsOldestMatch, Matches
<1>3. ASSUME NEW u \in Sessions
      PROVE  SessionShape(u)' /\ WriteKeeps(u)'
  <2>1. CASE match' = match /\ pc' = [pc EXCEPT ![s] = "commit"]
    BY <1>1, <2>1 DEF TypeOK, SessionsOK, SessionShape, WriteKeeps, BeforeWrite, AfterMatch
  <2>2. ASSUME NEW e \in Entries, waitlist[e] # NoEntry,
               match' = [match EXCEPT ![s] = e], pc' = [pc EXCEPT ![s] = "promote"]
        PROVE  SessionShape(u)' /\ WriteKeeps(u)'
    BY <1>1, <2>2, EntriesAssumption DEF TypeOK, SessionsOK, SessionShape, WriteKeeps, BeforeWrite, AfterMatch
  <2> QED
    BY <1>2, <2>1, <2>2
<1>4. ASSUME NEW u \in Sessions, NEW v \in Sessions \ {u}
      PROVE  RowsApart(u, v)'
  BY <1>1, <1>2 DEF TypeOK, SessionsOK, RowsApart
<1> QED
  BY <1>3, <1>4 DEF SessionsOK

(* The row a request commits is no other request's own. *)
LEMMA CommitSessions ==
  ASSUME TypeOK, SessionsOK, NEW s \in Sessions, Commit(s)
  PROVE  SessionsOK'
<1>1. req[s] \in Request /\ pc[s] = "commit" /\ pc[s] # "idle"
  BY RequestUnderWay DEF Commit
<1>2. /\ pc' = [pc EXCEPT ![s] = "idle"]
      /\ req' = [req EXCEPT ![s] = NoRequest]
      /\ snap' = [snap EXCEPT ![s] = NoRow]
      /\ new' = [new EXCEPT ![s] = NoRow]
      /\ match' = [match EXCEPT ![s] = NoEntry]
      /\ appts' = IF new[s] = NoRow THEN appts ELSE [appts EXCEPT ![req[s].appt] = new[s]]
  BY DEF Commit, Goto
<1>3. ASSUME NEW e \in Entries, waitlist[e] # NoEntry
      PROVE  waitlist'[e] # NoEntry
  <2>1. TypeOK'
    BY CommitType
  <2>2. CASE match[s] = NoEntry
    BY <1>3, <2>2 DEF Commit
  <2>3. CASE match[s] # NoEntry
    <3>1. match[s] \in Entries /\ waitlist[match[s]] \in WaitlistRow
      BY <2>3 DEF SessionsOK, SessionShape, TypeOK
    <3>2. [waitlist[match[s]] EXCEPT !.status = Promoted] \in WaitlistRow
      BY <3>1 DEF WaitlistRow
    <3>3. waitlist' = [waitlist EXCEPT ![match[s]].status = Promoted]
      BY <2>3 DEF Commit, WithPromotion
    <3> QED
      BY <1>3, <3>1, <3>2, <3>3, NoEntryAssumption DEF TypeOK
  <2> QED
    BY <2>2, <2>3
<1>4. ASSUME NEW u \in Sessions \ {s}, pc[u] # "idle"
      PROVE  /\ req[u].op \in Creations => appts'[req[u].appt] = NoRow
             /\ req[u].op \notin Creations => appts'[req[u].appt] # NoRow
             /\ new[u] # NoRow => appts'[req[u].appt] = appts[req[u].appt]
  <2>1. req[u] \in Request
    BY <1>4, RequestUnderWay
  <2>2. RowsApart(s, u) /\ RowsApart(u, s)
    BY <1>4 DEF SessionsOK
  <2>3. /\ req[u].op \in Creations => appts[req[u].appt] = NoRow
        /\ req[u].op \notin Creations => appts[req[u].appt] # NoRow
    BY <1>4 DEF SessionsOK, SessionShape
  <2> QED
    BY <1>1, <1>2, <1>4, <2>1, <2>2, <2>3 DEF RowsApart, TypeOK, Request
<1>5. ASSUME NEW u \in Sessions
      PROVE  SessionShape(u)'
  <2>1. CASE u = s
    BY <1>2, <2>1 DEF TypeOK, SessionShape, BeforeWrite, AfterMatch
  <2>2. CASE u # s
    <3>1. /\ pc'[u] = pc[u] /\ req'[u] = req[u] /\ snap'[u] = snap[u]
          /\ new'[u] = new[u] /\ match'[u] = match[u]
      BY <1>2, <2>2 DEF TypeOK
    <3>2. match[u] # NoEntry => waitlist'[match[u]] # NoEntry
      BY <1>3 DEF TypeOK, SessionsOK, SessionShape
    <3>3. SessionShape(u)
      BY DEF SessionsOK
    <3> QED
      BY <1>4, <2>2, <3>1, <3>2, <3>3 DEF SessionShape
  <2> QED
    BY <2>1, <2>2
<1>6. ASSUME NEW u \in Sessions
      PROVE  WriteKeeps(u)'
  <2>1. CASE u = s
    BY <1>2, <2>1 DEF TypeOK, WriteKeeps
  <2>2. CASE u # s
    <3>1. req'[u] = req[u] /\ new'[u] = new[u]
      BY <1>2, <2>2 DEF TypeOK
    <3>2. new[u] # NoRow => pc[u] # "idle"
      BY DEF SessionsOK, SessionShape, BeforeWrite
    <3>3. WriteKeeps(u)
      BY DEF SessionsOK
    <3> QED
      BY <1>4, <2>2, <3>1, <3>2, <3>3 DEF WriteKeeps
  <2> QED
    BY <2>1, <2>2
<1>7. ASSUME NEW u \in Sessions, NEW v \in Sessions \ {u}
      PROVE  RowsApart(u, v)'
  BY <1>2, <1>7 DEF TypeOK, SessionsOK, RowsApart
<1> QED
  BY <1>5, <1>6, <1>7 DEF SessionsOK

(* Joining and leaving the waitlist concerns no session. *)
LEMMA WaitlistSessions ==
  ASSUME TypeOK, SessionsOK, NEW e \in Entries, Join(e) \/ LeaveWaitlist(e)
  PROVE  SessionsOK'
<1>1. UNCHANGED <<appts, requested>>
  BY DEF Join, LeaveWaitlist
<1>2. ASSUME NEW f \in Entries, waitlist[f] # NoEntry
      PROVE  waitlist'[f] # NoEntry
  <2>1. CASE Join(e)
    BY <1>2, <2>1 DEF Join, JoinWaitlist, TypeOK
  <2>2. CASE LeaveWaitlist(e)
    <3>1. /\ waitlist[e] \in WaitlistRow
          /\ waitlist' = [waitlist EXCEPT ![e].status = Cancelled]
      BY <2>2 DEF LeaveWaitlist, CancelWaitlistEntry, TypeOK
    <3>2. [waitlist[e] EXCEPT !.status = Cancelled] \in WaitlistRow
      BY <3>1 DEF WaitlistRow
    <3> QED
      BY <1>2, <3>1, <3>2, NoEntryAssumption DEF TypeOK
  <2> QED
    BY <2>1, <2>2
<1>3. ASSUME NEW u \in Sessions
      PROVE  SessionShape(u)' /\ WriteKeeps(u)'
  BY <1>1, <1>2 DEF TypeOK, SessionsOK, SessionShape, WriteKeeps, requested
<1> QED
  BY <1>1, <1>3 DEF SessionsOK, RowsApart, requested

(* Every step keeps what sessions know. *)
LEMMA SessionsStep ==
  ASSUME TypeOK, SessionsOK, [Next]_vars
  PROVE  SessionsOK'
<1>1. CASE UNCHANGED <<appts, waitlist, requested>>
  BY <1>1 DEF SessionsOK, SessionShape, WriteKeeps, RowsApart, requested
<1>2. ASSUME NEW s \in Sessions, Arrive(s)
      PROVE  SessionsOK'
  BY <1>2, ArriveSessions
<1>3. ASSUME NEW s \in Sessions, Advance(s)
      PROVE  SessionsOK'
  <2>1. CASE RefuseTaken(s) \/ RefuseByConstraints(s) \/ ProviderFails(s) \/ DeadlockVictim(s)
    BY <2>1, RollbackSessions DEF RefuseTaken, RefuseByConstraints, ProviderFails, DeadlockVictim
  <2>2. CASE CheckEmployee(s) \/ CheckRoom(s) \/ PassConstraints(s) \/ PromoteEntry(s)
    BY <2>2, StepOnlySessions
  <2>3. CASE LoadService(s) \/ WriteRow(s) \/ SkipWrite(s)
    BY <2>3, LoadServiceSessions, WriteRowSessions, SkipWriteSessions
  <2>4. CASE Notify(s) \/ FindMatch(s) \/ Offer(s) \/ Commit(s)
    BY <2>4, NotifySessions, FindMatchSessions, CommitSessions
  <2> QED
    BY <1>3, <2>1, <2>2, <2>3, <2>4 DEF Advance
<1>4. ASSUME NEW s \in Sessions, Crash(s)
      PROVE  SessionsOK'
  BY <1>4, RollbackSessions DEF Crash
<1>5. ASSUME NEW e \in Entries, Join(e) \/ LeaveWaitlist(e)
      PROVE  SessionsOK'
  BY <1>5, WaitlistSessions
<1>6. CASE PatchService \/ UNCHANGED vars
  BY <1>1, <1>6 DEF PatchService, vars, stored
<1> QED
  BY <1>2, <1>3, <1>4, <1>5, <1>6 DEF Next

-----------------------------------------------------------------------------
(* The invariant holds of an empty calendar. *)
LEMMA InitInvariant ==
  ASSUME Init
  PROVE  IInv
<1>1. TypeOK
  BY MaxRequestsAssumption DEF Init, TypeOK, WaitlistInit, Steps, Notice
<1>2. SessionsOK
  BY DEF Init, SessionsOK, SessionShape, WriteKeeps, RowsApart, BeforeWrite, AfterMatch
<1>3. NoDoubleBooking
  BY DEF Init, NoDoubleBooking, Clash, Active
<1>4. GrantedSlotsDisjoint
  BY DEF Init, GrantedSlotsDisjoint, Granted
<1>5. HistoryAgrees
  BY DEF Init, HistoryAgrees
<1> QED
  BY <1>1, <1>2, <1>3, <1>4, <1>5 DEF IInv

(* A commit is the only step that changes the calendar or its audit trail. *)
LEMMA OnlyCommits ==
  ASSUME [Next]_vars, ~\E s \in Sessions : Commit(s)
  PROVE  UNCHANGED <<appts, history>>
<1>1. CASE UNCHANGED vars
  BY <1>1 DEF vars, stored
<1>2. ASSUME NEW s \in Sessions, Arrive(s)
      PROVE  UNCHANGED <<appts, history>>
  BY <1>2 DEF Arrive, StartCreate, StartTransition, StartReschedule, Admit, stored
<1>3. ASSUME NEW s \in Sessions, Advance(s)
      PROVE  UNCHANGED <<appts, history>>
  <2>1. CASE RefuseTaken(s) \/ RefuseByConstraints(s) \/ ProviderFails(s) \/ DeadlockVictim(s)
    BY <2>1 DEF RefuseTaken, RefuseByConstraints, ProviderFails, DeadlockVictim, Rollback, stored
  <2>2. CASE CheckEmployee(s) \/ CheckRoom(s) \/ PassConstraints(s) \/ PromoteEntry(s)
    BY <2>2 DEF CheckEmployee, CheckRoom, PassConstraints, PromoteEntry, stored
  <2>3. CASE LoadService(s) \/ WriteRow(s) \/ SkipWrite(s)
    BY <2>3 DEF LoadService, WriteRow, SkipWrite, stored
  <2>4. CASE Notify(s) \/ FindMatch(s) \/ Offer(s)
    BY <2>4 DEF Notify, FindMatch, Offer, stored
  <2> QED
    BY <1>3, <2>1, <2>2, <2>3, <2>4 DEF Advance
<1>4. ASSUME NEW s \in Sessions, Crash(s)
      PROVE  UNCHANGED <<appts, history>>
  BY <1>4 DEF Crash, Rollback, stored
<1>5. ASSUME NEW e \in Entries, Join(e) \/ LeaveWaitlist(e)
      PROVE  UNCHANGED <<appts, history>>
  BY <1>5 DEF Join, LeaveWaitlist
<1>6. CASE PatchService
  BY <1>6 DEF PatchService
<1> QED
  BY <1>1, <1>2, <1>3, <1>4, <1>5, <1>6 DEF Next

(* What a commit stores: its own row, granted, next to the others. *)
LEMMA CommitStores ==
  ASSUME TypeOK, SessionsOK, NEW s \in Sessions, Commit(s)
  PROVE  /\ req[s].appt \in Appts
         /\ new[s] # NoRow => /\ Granted(s)
                              /\ appts' = [appts EXCEPT ![req[s].appt] = new[s]]
         /\ new[s] = NoRow => appts' = appts /\ req[s].op = "reschedule"
<1>1. req[s] \in Request /\ pc[s] = "commit" /\ pc[s] # "idle"
  BY RequestUnderWay DEF Commit
<1> QED
  BY <1>1 DEF Commit, Request, Granted, SessionsOK, SessionShape

(* A commit stores a granted slot, which meets no committed row. *)
LEMMA NoDoubleBookingStep ==
  ASSUME IInv, [Next]_vars
  PROVE  NoDoubleBooking'
<1>1. CASE ~\E s \in Sessions : Commit(s)
  BY <1>1, OnlyCommits DEF IInv, NoDoubleBooking
<1>2. ASSUME NEW s \in Sessions, Commit(s)
      PROVE  NoDoubleBooking'
  <2>1. CASE new[s] = NoRow
    BY <1>2, <2>1, CommitStores DEF IInv, NoDoubleBooking
  <2>2. CASE new[s] # NoRow
    <3> DEFINE own == req[s].appt
    <3>1. own \in Appts /\ Granted(s) /\ appts' = [appts EXCEPT ![own] = new[s]]
      BY <1>2, <2>2, CommitStores DEF IInv
    <3>2. ASSUME NEW a \in Appts \ {own}
          PROVE  ~Clash(new[s], appts[a]) /\ ~Clash(appts[a], new[s])
      BY <3>1, <3>2, ClashSymmetric DEF IInv, GrantedSlotsDisjoint
    <3>3. \A a \in Appts : appts'[a] = IF a = own THEN new[s] ELSE appts[a]
      BY <3>1 DEF IInv, TypeOK
    <3> HIDE DEF own
    <3>4. ASSUME NEW a \in Appts, NEW b \in Appts, a # b
          PROVE  ~Clash(appts'[a], appts'[b])
      BY <3>2, <3>3, <3>4 DEF IInv, NoDoubleBooking
    <3> QED
      BY <3>4 DEF NoDoubleBooking
  <2> QED
    BY <2>1, <2>2
<1> QED
  BY <1>1, <1>2

(* A step that grants nothing and stores nothing keeps granted slots apart. *)
LEMMA GrantedFrame ==
  ASSUME GrantedSlotsDisjoint, UNCHANGED appts,
         \A u \in Sessions : Granted(u)' => /\ Granted(u)
                                            /\ new'[u] = new[u]
                                            /\ req'[u].appt = req[u].appt
  PROVE  GrantedSlotsDisjoint'
<1>1. ASSUME NEW u \in Sessions, Granted(u)'
      PROVE  /\ \A v \in Sessions \ {u} : Granted(v)' => ~Clash(new'[u], new'[v])
             /\ \A a \in Appts \ {req'[u].appt} : ~Clash(new'[u], appts'[a])
  BY <1>1 DEF GrantedSlotsDisjoint
<1> QED
  BY <1>1 DEF GrantedSlotsDisjoint

(* The constraints grant a slot that meets no other. *)
LEMMA PassConstraintsGrants ==
  ASSUME IInv, NEW s \in Sessions, PassConstraints(s)
  PROVE  GrantedSlotsDisjoint'
<1>1. /\ pc[s] = "constrain" /\ new[s] # NoRow
      /\ Rivals(s) = {} /\ ClashingRows(s) = {}
      /\ UNCHANGED <<appts, req, new>>
  BY DEF PassConstraints, stored, IInv, SessionsOK, SessionShape
<1>2. \A u \in Sessions \ {s} : Granted(u)' => Granted(u)
  BY <1>1 DEF PassConstraints, Goto, Granted, IInv, TypeOK
<1>3. ASSUME NEW u \in Sessions \ {s}, Granted(u)
      PROVE  ~Clash(new[s], new[u]) /\ ~Clash(new[u], new[s])
  BY <1>1, <1>3, ClashSymmetric DEF Rivals, Granted
<1>4. \A a \in Appts \ {req[s].appt} : ~Clash(new[s], appts[a])
  BY <1>1 DEF ClashingRows
<1>5. ASSUME NEW u \in Sessions, Granted(u)'
      PROVE  /\ \A v \in Sessions \ {u} : Granted(v)' => ~Clash(new[u], new[v])
             /\ \A a \in Appts \ {req[u].appt} : ~Clash(new[u], appts[a])
  <2>1. CASE u = s
    BY <1>2, <1>3, <1>4, <2>1
  <2>2. CASE u # s
    <3>1. Granted(u)
      BY <1>2, <1>5, <2>2
    <3>2. ASSUME NEW v \in Sessions \ {u}, Granted(v)'
          PROVE  ~Clash(new[u], new[v])
      BY <1>2, <1>3, <2>2, <3>1, <3>2 DEF IInv, GrantedSlotsDisjoint
    <3> QED
      BY <3>1, <3>2 DEF IInv, GrantedSlotsDisjoint
  <2> QED
    BY <2>1, <2>2
<1> QED
  BY <1>1, <1>5 DEF GrantedSlotsDisjoint

(* A granted slot becomes a row the other granted slots do not meet. *)
LEMMA CommitGrants ==
  ASSUME IInv, NEW s \in Sessions, Commit(s)
  PROVE  GrantedSlotsDisjoint'
<1> DEFINE own == req[s].appt
<1>1. \A u \in Sessions : Granted(u)' => /\ u # s /\ Granted(u)
                                         /\ new'[u] = new[u]
                                         /\ req'[u] = req[u]
  BY DEF Commit, Goto, Granted, IInv, TypeOK
<1>2. CASE new[s] = NoRow
  BY <1>1, <1>2, CommitStores, GrantedFrame DEF IInv
<1>3. CASE new[s] # NoRow
  <2>1. own \in Appts /\ Granted(s) /\ appts' = [appts EXCEPT ![own] = new[s]]
    BY <1>3, CommitStores DEF IInv
  <2>2. \A a \in Appts : appts'[a] = IF a = own THEN new[s] ELSE appts[a]
    BY <2>1 DEF IInv, TypeOK
  <2>3. ASSUME NEW u \in Sessions, Granted(u)'
        PROVE  /\ \A v \in Sessions \ {u} : Granted(v)' => ~Clash(new'[u], new'[v])
               /\ \A a \in Appts \ {req'[u].appt} : ~Clash(new'[u], appts'[a])
    <3>1. u # s /\ Granted(u) /\ new'[u] = new[u] /\ req'[u] = req[u]
      BY <1>1, <2>3
    <3>2. ~Clash(new[u], new[s])
      BY <2>1, <3>1 DEF IInv, GrantedSlotsDisjoint
    <3>3. \A a \in Appts \ {req'[u].appt} : ~Clash(new'[u], appts'[a])
      BY <2>2, <3>1, <3>2 DEF IInv, GrantedSlotsDisjoint
    <3>4. \A v \in Sessions \ {u} : Granted(v)' => ~Clash(new'[u], new'[v])
      BY <1>1, <3>1 DEF IInv, GrantedSlotsDisjoint
    <3> QED
      BY <3>3, <3>4
  <2> QED
    BY <2>3 DEF GrantedSlotsDisjoint
<1> QED
  BY <1>2, <1>3

(* Every step keeps granted slots apart. *)
LEMMA GrantedSlotsStep ==
  ASSUME IInv, [Next]_vars
  PROVE  GrantedSlotsDisjoint'
<1> DEFINE Kept == \A u \in Sessions : Granted(u)' => /\ Granted(u)
                                                     /\ new'[u] = new[u]
                                                     /\ req'[u].appt = req[u].appt
<1>1. CASE UNCHANGED <<appts, pc, req, new>>
  <2>1. Kept
    BY <1>1 DEF Granted
  <2> QED
    BY <1>1, <2>1, GrantedFrame DEF IInv
<1>2. ASSUME NEW s \in Sessions, Rollback(s)
      PROVE  GrantedSlotsDisjoint'
  <2>1. Kept
    BY <1>2 DEF Rollback, Goto, Granted, IInv, TypeOK
  <2> QED
    BY <1>2, <2>1, GrantedFrame DEF IInv, Rollback, stored
<1>3. ASSUME NEW s \in Sessions, Arrive(s)
      PROVE  GrantedSlotsDisjoint'
  <2>1. PICK r \in Request, step \in {"check", "load", "write"} : IsArrival(s, r, step)
    BY <1>3, Arrival DEF IInv
  <2>2. Kept
    BY <2>1 DEF IsArrival, Admit, Goto, Granted, IInv, TypeOK
  <2> QED
    BY <2>1, <2>2, GrantedFrame DEF IInv, IsArrival, Admit, stored
<1>4. ASSUME NEW s \in Sessions, Advance(s)
      PROVE  GrantedSlotsDisjoint'
  <2>1. CASE RefuseTaken(s) \/ RefuseByConstraints(s) \/ ProviderFails(s) \/ DeadlockVictim(s)
    BY <1>2, <2>1 DEF RefuseTaken, RefuseByConstraints, ProviderFails, DeadlockVictim
  <2>2. CASE CheckEmployee(s) \/ CheckRoom(s) \/ WriteRow(s) \/ LoadService(s) \/ SkipWrite(s)
    <3>1. pc[s] \in BeforeWrite /\ new[s] = NoRow
      BY <2>2 DEF CheckEmployee, CheckRoom, WriteRow, LoadService, SkipWrite, BeforeWrite,
                  IInv, SessionsOK, SessionShape
    <3>2. ~Granted(s)'
      <4>1. CASE WriteRow(s)
        BY <4>1 DEF WriteRow, Goto, Granted, IInv, TypeOK
      <4>2. CASE ~WriteRow(s)
        BY <2>2, <3>1, <4>2 DEF CheckEmployee, CheckRoom, LoadService, SkipWrite, Granted
      <4> QED
        BY <4>1, <4>2
    <3>3. \A u \in Sessions \ {s} : pc'[u] = pc[u] /\ new'[u] = new[u] /\ req'[u] = req[u]
      BY <2>2 DEF CheckEmployee, CheckRoom, WriteRow, LoadService, SkipWrite, Goto, IInv, TypeOK
    <3>4. Kept
      BY <3>2, <3>3 DEF Granted
    <3> QED
      BY <2>2, <3>4, GrantedFrame
      DEF IInv, CheckEmployee, CheckRoom, WriteRow, LoadService, SkipWrite, stored
  <2>3. CASE Notify(s) \/ FindMatch(s) \/ PromoteEntry(s) \/ Offer(s)
    <3>1. /\ pc[s] \in {"notify", "match", "promote", "offer"}
          /\ \A u \in Sessions \ {s} : pc'[u] = pc[u]
          /\ UNCHANGED <<appts, req, new>>
      BY <2>3 DEF Notify, FindMatch, PromoteEntry, Offer, Goto, stored, IInv, TypeOK
    <3>2. Kept
      BY <3>1 DEF Granted
    <3> QED
      BY <3>1, <3>2, GrantedFrame DEF IInv
  <2> QED
    BY <1>4, <2>1, <2>2, <2>3, PassConstraintsGrants, CommitGrants DEF Advance
<1>5. ASSUME NEW s \in Sessions, Crash(s)
      PROVE  GrantedSlotsDisjoint'
  BY <1>2, <1>5 DEF Crash
<1>6. ASSUME NEW e \in Entries, Join(e) \/ LeaveWaitlist(e)
      PROVE  GrantedSlotsDisjoint'
  BY <1>1, <1>6 DEF Join, LeaveWaitlist, requested
<1>7. CASE PatchService \/ UNCHANGED vars
  BY <1>1, <1>7 DEF PatchService, vars, stored, requested
<1> QED
  BY <1>3, <1>4, <1>5, <1>6, <1>7 DEF Next

(* The last element of a sequence an element was appended to. *)
LEMMA AppendLast ==
  ASSUME NEW S, NEW q \in Seq(S), NEW e \in S
  PROVE  Append(q, e) # <<>> /\ Append(q, e)[Len(Append(q, e))] = e
<1>1. Len(Append(q, e)) = Len(q) + 1 /\ Len(q) \in Nat
  OBVIOUS
<1>2. Append(q, e)[Len(q) + 1] = e
  BY <1>1
<1> QED
  BY <1>1, <1>2

(* A transition appends the status it stores; a move keeps the status it finds. *)
LEMMA HistoryAgreesStep ==
  ASSUME IInv, [Next]_vars
  PROVE  HistoryAgrees'
<1>1. CASE ~\E s \in Sessions : Commit(s)
  BY <1>1, OnlyCommits DEF IInv, HistoryAgrees
<1>2. ASSUME NEW s \in Sessions, Commit(s)
      PROVE  HistoryAgrees'
  <2> DEFINE own == req[s].appt
  <2>1. /\ own \in Appts /\ req[s] \in Request /\ pc[s] = "commit" /\ pc[s] # "idle"
        /\ new[s] # NoRow => appts' = [appts EXCEPT ![own] = new[s]]
        /\ new[s] = NoRow => appts' = appts /\ req[s].op = "reschedule"
    BY <1>2, CommitStores, RequestUnderWay DEF IInv, Commit
  <2>2. CASE req[s].op = "reschedule"
    <3>1. appts[own] # NoRow
      BY <2>1, <2>2 DEF IInv, SessionsOK, SessionShape, Creations
    <3>2. new[s] # NoRow => new[s].status = appts[own].status
      BY <2>2, <3>1 DEF IInv, SessionsOK, WriteKeeps, Transitions
    <3>3. \A a \in Appts : /\ appts'[a] = NoRow <=> appts[a] = NoRow
                           /\ appts[a] # NoRow => appts'[a].status = appts[a].status
      BY <2>1, <3>1, <3>2 DEF IInv, TypeOK
    <3>4. history' = history
      BY <1>2, <2>2 DEF Commit
    <3> QED
      BY <3>3, <3>4 DEF IInv, HistoryAgrees
  <2>3. CASE req[s].op # "reschedule"
    <3>1. new[s] \in Row /\ new[s] # NoRow /\ appts' = [appts EXCEPT ![own] = new[s]]
      BY <2>1, <2>3 DEF IInv, TypeOK
    <3>2. HistoryEntry(s) \in HistoryRow /\ HistoryEntry(s).to = new[s].status
      <4>1. req[s].op \notin Creations => snap[s] \in Row
        BY <2>1 DEF IInv, SessionsOK, SessionShape, TypeOK
      <4> QED
        BY <3>1, <4>1 DEF HistoryEntry, HistoryRow, Row
    <3>3. history' = [history EXCEPT ![own] = Append(history[own], HistoryEntry(s))]
      BY <1>2, <2>3 DEF Commit
    <3>4. history \in [Appts -> Seq(HistoryRow)] /\ appts \in [Appts -> Row \cup {NoRow}]
      BY DEF IInv, TypeOK
    <3> DEFINE h == Append(history[own], HistoryEntry(s))
    <3>5. h # <<>> /\ h[Len(h)].to = new[s].status
      <4>1. history[own] \in Seq(HistoryRow)
        BY <2>1, <3>4
      <4> QED
        BY <3>2, <4>1, AppendLast
    <3>6. ASSUME NEW a \in Appts
          PROVE  IF appts'[a] = NoRow THEN history'[a] = <<>>
                 ELSE /\ history'[a] # <<>>
                      /\ history'[a][Len(history'[a])].to = appts'[a].status
      <4>1. CASE a = own
        <5>1. appts'[a] = new[s] /\ history'[a] = h
          BY <3>1, <3>3, <3>4, <4>1
        <5> HIDE DEF h
        <5> QED
          BY <3>1, <3>5, <5>1
      <4>2. CASE a # own
        <5>1. appts'[a] = appts[a] /\ history'[a] = history[a]
          BY <3>1, <3>3, <3>4, <4>2
        <5> QED
          BY <5>1 DEF IInv, HistoryAgrees
      <4> QED
        BY <4>1, <4>2
    <3> QED
      BY <3>6 DEF HistoryAgrees
  <2> QED
    BY <2>2, <2>3
<1> QED
  BY <1>1, <1>2

(* Every step keeps the invariant. *)
LEMMA InvariantStep ==
  ASSUME IInv, [Next]_vars
  PROVE  IInv'
<1>1. TypeOK /\ SessionsOK
  BY DEF IInv
<1>2. TypeOK' /\ SessionsOK'
  BY <1>1, TypeStep, SessionsStep
<1> QED
  BY <1>2, NoDoubleBookingStep, GrantedSlotsStep, HistoryAgreesStep DEF IInv

-----------------------------------------------------------------------------
(* The invariant the theorems below rest on: what sessions know, that row   *)
(* locks keep writers apart, and the three safety invariants together.      *)
THEOREM Invariant == Spec => []IInv
<1>1. Init => IInv
  BY InitInvariant
<1>2. IInv /\ [Next]_vars => IInv'
  BY InvariantStep
<1> QED
  BY <1>1, <1>2, PTL DEF Spec

(* Every reachable state has the types of the tables and sessions: a row's  *)
(* status is never RESCHEDULED, a request is always well formed.            *)
THEOREM TypeCorrect == Spec => []TypeOK
<1>1. IInv => TypeOK
  BY DEF IInv
<1> QED
  BY <1>1, Invariant, PTL

(* However many requests overlap, no employee and no room is committed      *)
(* twice at one time.                                                       *)
THEOREM NeverDoubleBooked == Spec => []NoDoubleBooking
<1>1. IInv => NoDoubleBooking
  BY DEF IInv
<1> QED
  BY <1>1, Invariant, PTL

(* Two requests that passed the exclusion constraints, and may have told    *)
(* their clients so, never hold clashing slots.                             *)
THEOREM GrantedNeverClash == Spec => []GrantedSlotsDisjoint
<1>1. IInv => GrantedSlotsDisjoint
  BY DEF IInv
<1> QED
  BY <1>1, Invariant, PTL

(* The last row of an appointment's status history is its status.           *)
THEOREM HistoryFollowsStatus == Spec => []HistoryAgrees
<1>1. IInv => HistoryAgrees
  BY DEF IInv
<1> QED
  BY <1>1, Invariant, PTL

(* Who waits holds what a waiter of its own can wait for only at the        *)
(* constraint checks: a flush that waits for its row lock has written       *)
(* nothing, and whoever holds an entry waits for nobody.                    *)
LEMMA CircleAtConstraints ==
  ASSUME SessionsOK, NEW C \in SUBSET Sessions,
         \A t \in C : WaitsFor(t) \cap C # {} /\ \E u \in C : t \in WaitsFor(u),
         NEW s \in C
  PROVE  pc[s] = "constrain"
<1>1. ASSUME NEW t \in C
      PROVE  pc[t] \in {"write", "constrain", "promote"}
  BY <1>1 DEF WaitsFor
<1>2. ASSUME NEW u \in C
      PROVE  pc[u] # "promote"
  <2> SUFFICES ASSUME pc[u] = "promote"
               PROVE  FALSE
    OBVIOUS
  <2>1. PICK v \in C : v \in WaitsFor(u)
    OBVIOUS
  <2>2. pc[v] \in {"offer", "commit"}
    BY <2>1 DEF WaitsFor, HoldsEntry
  <2> QED
    BY <1>1, <2>2
<1>3. PICK u \in C : s \in WaitsFor(u)
  OBVIOUS
<1>4. new[s] # NoRow
  BY <1>1, <1>2, <1>3 DEF WaitsFor, HoldsRow, Rivals
<1>5. pc[s] # "write"
  BY <1>4 DEF SessionsOK, SessionShape, BeforeWrite
<1> QED
  BY <1>1, <1>2, <1>5

(* A request the deadlock detector ends has told no client anything.        *)
THEOREM VictimsAreSilent == Spec => []VictimsToldNobody
<1>1. IInv => VictimsToldNobody
  BY CircleAtConstraints DEF IInv, VictimsToldNobody, OnCycle
<1> QED
  BY <1>1, Invariant, PTL

(* A commit never changes both the status and the times of an appointment:  *)
(* overlapping moves and transitions of one row keep each other's columns.  *)
THEOREM EditsStayApart == Spec => EditsKeptApart
<1> DEFINE A == \A a \in Appts :
                  appts[a] # NoRow /\ appts'[a].status # appts[a].status =>
                    appts'[a].start = appts[a].start /\ appts'[a].end = appts[a].end
<1>1. ASSUME IInv, [Next]_vars
      PROVE  A
  <2>1. CASE ~\E s \in Sessions : Commit(s)
    BY <1>1, <2>1, OnlyCommits
  <2>2. ASSUME NEW s \in Sessions, Commit(s)
        PROVE  A
    <3>1. /\ req[s].appt \in Appts
          /\ new[s] # NoRow => appts' = [appts EXCEPT ![req[s].appt] = new[s]]
          /\ new[s] = NoRow => appts' = appts
      BY <1>1, <2>2, CommitStores DEF IInv
    <3>2. WriteKeeps(s) /\ appts \in [Appts -> Row \cup {NoRow}]
      BY <1>1 DEF IInv, SessionsOK, TypeOK
    <3>3. CASE new[s] = NoRow
      BY <3>1, <3>3
    <3>4. CASE new[s] # NoRow
      BY <3>1, <3>2, <3>4 DEF WriteKeeps
    <3> QED
      BY <3>3, <3>4
  <2> QED
    BY <2>1, <2>2
<1>2. IInv /\ [Next]_vars => [A]_vars
  BY <1>1
<1> QED
  BY <1>2, Invariant, PTL DEF Spec, EditsKeptApart

-----------------------------------------------------------------------------
(* A commit is a step of the abstract calendar: its row takes a slot that   *)
(* is available, or gives one up.                                           *)
LEMMA CommitIsCalendarStep ==
  ASSUME IInv, NEW s \in Sessions, Commit(s), new[s] # NoRow
  PROVE  Agenda!Next
<1> DEFINE own == req[s].appt
           slot == HeldSlot(new[s])
           booked == [a \in Appts |-> HeldSlot(appts[a])]
<1>1. own \in Appts /\ Granted(s) /\ appts' = [appts EXCEPT ![own] = new[s]]
  BY CommitStores DEF IInv
<1>2. booked' = [booked EXCEPT ![own] = slot]
  BY <1>1 DEF IInv, TypeOK
<1>3. CASE ~Active(new[s])
  <2>1. Agenda!GiveUp(own)
    BY <1>2, <1>3 DEF Agenda!GiveUp, HeldSlot
  <2> QED
    BY <1>1, <2>1 DEF Agenda!Next
<1>4. CASE Active(new[s])
  <2>1. /\ new[s] \in Row
        /\ slot = [employee |-> new[s].employee, room |-> new[s].room,
                   start |-> new[s].start, end |-> new[s].end]
    BY <1>4 DEF IInv, TypeOK, HeldSlot
  <2>2. slot \in Agenda!Slot
    BY <2>1 DEF Agenda!Slot, Row
  <2>3. Agenda!Available(own, slot)
    <3>1. ASSUME NEW b \in Appts \ {own}, booked[b] # NoRow
          PROVE  ~Agenda!Compete(slot, booked[b])
      <4>1. ~Clash(new[s], appts[b])
        BY <1>1 DEF IInv, GrantedSlotsDisjoint
      <4>2. Active(appts[b]) /\ booked[b] = [employee |-> appts[b].employee, room |-> appts[b].room,
                                            start |-> appts[b].start, end |-> appts[b].end]
        BY <3>1 DEF HeldSlot
      <4>3. ~(SameResource(new[s], appts[b]) /\ RangesOverlap(new[s], appts[b]))
        BY <1>4, <4>1, <4>2 DEF Clash
      <4> QED
        BY <2>1, <4>2, <4>3 DEF Agenda!Compete, SameResource, RangesOverlap
    <3> QED
      BY <3>1 DEF Agenda!Available
  <2>4. booked[own] # NoRow => /\ slot.employee = booked[own].employee
                               /\ slot.room = booked[own].room
    <3> SUFFICES ASSUME booked[own] # NoRow
                 PROVE  /\ slot.employee = booked[own].employee
                        /\ slot.room = booked[own].room
      OBVIOUS
    <3>1. Active(appts[own]) /\ booked[own] = [employee |-> appts[own].employee, room |-> appts[own].room,
                                              start |-> appts[own].start, end |-> appts[own].end]
      BY <1>1 DEF HeldSlot
    <3>2. new[s].employee = appts[own].employee /\ new[s].room = appts[own].room
      BY <3>1 DEF IInv, SessionsOK, WriteKeeps, Active
    <3> QED
      BY <2>1, <3>1, <3>2
  <2>5. Agenda!Take(own, slot)
    BY <1>2, <2>3, <2>4 DEF Agenda!Take
  <2> QED
    BY <1>1, <2>2, <2>5 DEF Agenda!Next
<1> QED
  BY <1>3, <1>4

(* The service implements the abstract calendar: seen through the committed *)
(* rows, racing requests take, move and give up slots one at a time.        *)
THEOREM CalendarImplemented == Spec => ImplementsCalendar
<1>1. Init => Agenda!Init
  BY DEF Init, Agenda!Init, HeldSlot, Active
<1>2. ASSUME IInv, [Next]_vars
      PROVE  [Agenda!Next]_[a \in Appts |-> HeldSlot(appts[a])]
  <2>1. CASE appts' = appts
    BY <2>1
  <2>2. ASSUME NEW s \in Sessions, Commit(s), new[s] # NoRow
        PROVE  Agenda!Next
    BY <1>2, <2>2, CommitIsCalendarStep
  <2>3. ASSUME NEW s \in Sessions, Commit(s), new[s] = NoRow
        PROVE  appts' = appts
    BY <1>2, <2>3, CommitStores DEF IInv
  <2> QED
    BY <1>2, <2>1, <2>2, <2>3, OnlyCommits
<1> QED
  BY <1>1, <1>2, Invariant, PTL DEF Spec, ImplementsCalendar, Agenda!Spec
=============================================================================
