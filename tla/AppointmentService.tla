------------------------- MODULE AppointmentService -------------------------
(***************************************************************************)
(* appointment_service.py over PostgreSQL: requests that create, confirm,  *)
(* complete, cancel and move appointments, each in a transaction of its    *)
(* own, interleaved at every await.                                        *)
(*                                                                         *)
(* A request reads first and writes later.  What it read is in snap, what  *)
(* it asks for is in req, and the row version it has written and not yet   *)
(* committed is in new: while new[s] is a row, session s holds the row     *)
(* lock of req[s].appt.  The committed tables are appts, history and       *)
(* waitlist; a rollback leaves them alone, while a message handed to the   *)
(* WhatsApp provider (sent) stays sent.                                    *)
(*                                                                         *)
(* READ COMMITTED: every read sees the latest commit.  An UPDATE names the *)
(* primary key and the changed columns only, waits for the row lock, and   *)
(* then applies to the row as it has become.  The exclusion constraints    *)
(* are checked once the new version is in place, and wait for transactions *)
(* in progress whose outcome matters.                                      *)
(***************************************************************************)
EXTENDS Waitlist, Sequences

CONSTANTS
  Sessions,      \* concurrent requests (database sessions)
  Services,      \* the versions of the service row a PATCH may store
  Starts,        \* the starts_at values a request may carry
  Offered,       \* the operations clients call
  NoRequest,     \* the session serves no request
  MaxRequests    \* bound: requests served in a behaviour

VARIABLES
  appts,     \* appointments: id -> committed row, or NoRow
  history,   \* appointment_status_history: id -> rows in commit order
  service,   \* the committed service row
  sent,      \* messages the WhatsApp provider was given
  began,     \* number of requests so far
  pc,        \* where each request is
  req,       \* the request each session serves
  snap,      \* the appointment row it read
  new,       \* the row version it wrote and has not committed
  match      \* the waitlist entry it picked

stored    == <<appts, history, service, waitlist>>
requested == <<pc, req, snap, new, match>>
vars      == <<stored, sent, began, requested>>

-----------------------------------------------------------------------------
(* Types                                                                   *)

Creations   == {"create_staff", "create_public"}
Transitions == {"confirm", "complete", "cancel", "no_show"}
Operations  == Creations \cup Transitions \cup {"reschedule"}

(* The to_status each public function gives _transition. *)
Target(op) ==
  CASE op = "confirm"  -> Confirmed
    [] op = "complete" -> Completed
    [] OTHER           -> Cancelled

(* Staff creating an appointment confirms it; a public booking is pending. *)
InitialStatus(op) == IF op = "create_staff" THEN Confirmed ELSE Pending

Request == [op       : Operations,
            appt     : Appts,
            employee : Employees,
            room     : Rooms \cup {NoRoom},
            start    : Times,
            end      : Times]

ServiceVersion == [duration : Nat \ {0}, requiresRoom : BOOLEAN]

NoStatus == "none"   \* from_status IS NULL, on the row a creation writes

HistoryRow == [from : Statuses \cup {NoStatus}, to : Statuses]

Notice == [type  : {"confirmation", "cancellation", "reschedule", "waitlist_promotion"},
           to    : Appts \cup Entries,
           start : Times]

Steps == {"idle", "load", "check", "checkroom", "write", "constrain",
          "notify", "match", "promote", "offer", "commit"}

ASSUME NoRequestAssumption == NoRequest \notin Request

ASSUME ServicesAssumption == Services \subseteq ServiceVersion

ASSUME TimesCoverRequests ==
  \A t \in Starts, v \in Services : t \in Times /\ t + v.duration \in Times

ASSUME MaxRequestsAssumption == MaxRequests \in Nat

TypeOK ==
  /\ appts    \in [Appts -> Row \cup {NoRow}]
  /\ history  \in [Appts -> Seq(HistoryRow)]
  /\ service  \in Services
  /\ waitlist \in [Entries -> WaitlistRow \cup {NoEntry}]
  /\ sent     \subseteq Notice
  /\ began    \in 0..MaxRequests
  /\ pc       \in [Sessions -> Steps]
  /\ req      \in [Sessions -> Request \cup {NoRequest}]
  /\ snap     \in [Sessions -> Row \cup {NoRow}]
  /\ new      \in [Sessions -> Row \cup {NoRow}]
  /\ match    \in [Sessions -> Entries \cup {NoEntry}]

Init ==
  /\ appts = [a \in Appts |-> NoRow]
  /\ history = [a \in Appts |-> <<>>]
  /\ service \in Services
  /\ WaitlistInit
  /\ sent = {}
  /\ began = 0
  /\ pc = [s \in Sessions |-> "idle"]
  /\ req = [s \in Sessions |-> NoRequest]
  /\ snap = [s \in Sessions |-> NoRow]
  /\ new = [s \in Sessions |-> NoRow]
  /\ match = [s \in Sessions |-> NoEntry]

-----------------------------------------------------------------------------
(* Locks                                                                   *)

(* Session s has written the row of appointment a and not yet ended. *)
HoldsRow(s, a) == new[s] # NoRow /\ req[s].appt = a

(* Variant: the entry locked by the query that finds it, which two may have *)
(* made.                                                                    *)
HoldsEntryOnceFound(s, e) == match[s] = e /\ pc[s] \in {"promote", "offer", "commit"}

(* Session s has stored PROMOTED in entry e and not yet ended. *)
HoldsEntry(s, e) == match[s] = e /\ pc[s] \in {"offer", "commit"}

Goto(s, step) == pc' = [pc EXCEPT ![s] = step]

(* Variant: an error path that answers without rolling back. *)
LeakyRollback(s) ==
  /\ Goto(s, "idle")
  /\ UNCHANGED <<stored, sent, began, req, snap, new, match>>

(* The session's cleanup when a request ends without a commit: refused,     *)
(* failed or cut off.  Its writes are gone, its locks are free.             *)
Rollback(s) ==
  /\ Goto(s, "idle")
  /\ req' = [req EXCEPT ![s] = NoRequest]
  /\ snap' = [snap EXCEPT ![s] = NoRow]
  /\ new' = [new EXCEPT ![s] = NoRow]
  /\ match' = [match EXCEPT ![s] = NoEntry]
  /\ UNCHANGED <<stored, sent, began>>

-----------------------------------------------------------------------------
(* A request arrives                                                       *)

Admit(s, request, step) ==
  /\ pc[s] = "idle"
  /\ began < MaxRequests
  /\ began' = began + 1
  /\ req' = [req EXCEPT ![s] = request]
  /\ Goto(s, step)
  /\ UNCHANGED <<stored, sent, new, match>>

(* uuid4: an id no row, request or message has carried. *)
FreshId(a) ==
  /\ appts[a] = NoRow
  /\ \A s \in {t \in Sessions : req[t] # NoRequest} : req[s].appt # a
  /\ \A m \in sent : m.to # a

(* create_appointment up to its first read: the service gives ends_at, and  *)
(* the room is kept only if the service requires one.                       *)
StartCreate(s) ==
  /\ \E op \in Creations \cap Offered, a \in Appts, e \in Employees, r \in Rooms \cup {NoRoom}, t \in Starts :
       /\ FreshId(a)
       /\ Admit(s, [op       |-> op,
                    appt     |-> a,
                    employee |-> e,
                    room     |-> IF service.requiresRoom THEN r ELSE NoRoom,
                    start    |-> t,
                    end      |-> t + service.duration], "check")
  /\ UNCHANGED snap

(* Variant: the status written without a look at the one that was read.     *)
StartAnyTransition(s) ==
  \E op \in Transitions \cap Offered, a \in Appts :
    /\ appts[a] # NoRow
    /\ Admit(s, [op       |-> op,
                 appt     |-> a,
                 employee |-> appts[a].employee,
                 room     |-> appts[a].room,
                 start    |-> appts[a].start,
                 end      |-> appts[a].end], "write")
    /\ snap' = [snap EXCEPT ![s] = appts[a]]

(* get_appointment, then the status check of _transition on what it read:   *)
(* a status that does not allow the target ends the request at once.        *)
StartTransition(s) ==
  \E op \in Transitions \cap Offered, a \in Appts :
    /\ appts[a] # NoRow
    /\ Target(op) \in AllowedTransitions[appts[a].status]
    /\ Admit(s, [op       |-> op,
                 appt     |-> a,
                 employee |-> appts[a].employee,
                 room     |-> appts[a].room,
                 start    |-> appts[a].start,
                 end      |-> appts[a].end], "write")
    /\ snap' = [snap EXCEPT ![s] = appts[a]]

(* reschedule_appointment: get_appointment and its own status check. *)
StartReschedule(s) ==
  \E a \in Appts, t \in Starts :
    /\ "reschedule" \in Offered
    /\ appts[a] # NoRow
    /\ appts[a].status \notin {Cancelled, Completed}
    /\ Admit(s, [op       |-> "reschedule",
                 appt     |-> a,
                 employee |-> appts[a].employee,
                 room     |-> appts[a].room,
                 start    |-> t,
                 end      |-> appts[a].end], "load")
    /\ snap' = [snap EXCEPT ![s] = appts[a]]

(* reschedule_appointment: _load_service gives new_ends_at. *)
LoadService(s) ==
  /\ pc[s] = "load"
  /\ req' = [req EXCEPT ![s].end = req[s].start + service.duration]
  /\ Goto(s, "check")
  /\ UNCHANGED <<stored, sent, began, snap, new, match>>

-----------------------------------------------------------------------------
(* has_conflict: two queries, each with a view of its own.  A hit raises    *)
(* ConflictError.                                                           *)

OthersInInterval(s) ==
  {a \in Appts \ {req[s].appt} : OccupiesInterval(appts[a], req[s].start, req[s].end)}

CheckEmployee(s) ==
  /\ pc[s] = "check"
  /\ \A a \in OthersInInterval(s) : appts[a].employee # req[s].employee
  /\ Goto(s, IF req[s].room = NoRoom THEN "write" ELSE "checkroom")
  /\ UNCHANGED <<stored, sent, began, req, snap, new, match>>

CheckRoom(s) ==
  /\ pc[s] = "checkroom"
  /\ \A a \in OthersInInterval(s) : appts[a].room # req[s].room
  /\ Goto(s, "write")
  /\ UNCHANGED <<stored, sent, began, req, snap, new, match>>

RefuseTaken(s) ==
  /\ \/ /\ pc[s] = "check"
        /\ \E a \in OthersInInterval(s) : appts[a].employee = req[s].employee
     \/ /\ pc[s] = "checkroom"
        /\ \E a \in OthersInInterval(s) : appts[a].room = req[s].room
  /\ Rollback(s)

-----------------------------------------------------------------------------
(* flush(): the INSERT or UPDATE                                           *)

(* SQLAlchemy stores the columns whose value differs from the one read; a   *)
(* reschedule to the times the row was read with emits no statement.        *)
EmitsStatement(s) ==
  req[s].op = "reschedule" =>
    req[s].start # snap[s].start \/ req[s].end # snap[s].end

(* Variant: an UPDATE of every column, as the row was read. *)
WholeRowVersion(s) ==
  CASE req[s].op \in Creations ->
         [employee |-> req[s].employee, room |-> req[s].room,
          start |-> req[s].start, end |-> req[s].end,
          status |-> InitialStatus(req[s].op), noShow |-> FALSE]
    [] req[s].op \in Transitions ->
         [snap[s] EXCEPT !.status = Target(req[s].op),
                         !.noShow = @ \/ req[s].op = "no_show"]
    [] OTHER ->
         [snap[s] EXCEPT !.start = req[s].start, !.end = req[s].end]

(* Variant: RESCHEDULED used as a resting status. *)
RescheduledVersion(s) ==
  IF req[s].op = "reschedule"
  THEN [appts[req[s].appt] EXCEPT !.start = req[s].start, !.end = req[s].end, !.status = "rescheduled"]
  ELSE WholeRowVersion(s)

(* The row version the statement leaves: an UPDATE starts from the row as   *)
(* committed now, which may no longer be the row that was read.             *)
NewVersion(s) ==
  LET row == appts[req[s].appt] IN
  CASE req[s].op \in Creations ->
         [employee |-> req[s].employee, room |-> req[s].room,
          start |-> req[s].start, end |-> req[s].end,
          status |-> InitialStatus(req[s].op), noShow |-> FALSE]
    [] req[s].op \in Transitions ->
         [row EXCEPT !.status = Target(req[s].op),
                     !.noShow = @ \/ req[s].op = "no_show"]
    [] OTHER ->
         [row EXCEPT !.start = IF req[s].start # snap[s].start THEN req[s].start ELSE @,
                     !.end   = IF req[s].end # snap[s].end THEN req[s].end ELSE @]

WriteRow(s) ==
  /\ pc[s] = "write"
  /\ EmitsStatement(s)
  /\ \A t \in Sessions \ {s} : ~HoldsRow(t, req[s].appt)
  /\ new' = [new EXCEPT ![s] = NewVersion(s)]
  /\ Goto(s, "constrain")
  /\ UNCHANGED <<stored, sent, began, req, snap, match>>

(* Nothing to flush; the re-fetch that follows replaces what was read. *)
SkipWrite(s) ==
  /\ pc[s] = "write"
  /\ ~EmitsStatement(s)
  /\ snap' = [snap EXCEPT ![s] = appts[req[s].appt]]
  /\ Goto(s, "notify")
  /\ UNCHANGED <<stored, sent, began, req, new, match>>

-----------------------------------------------------------------------------
(* The exclusion constraints                                               *)

(* tstzrange() raises on a lower bound above the upper. *)
IllFormed(r) == Active(r) /\ r.start > r.end

(* Transactions in progress that wrote, or wrote over, a clashing version. *)
Rivals(s) ==
  {t \in Sessions \ {s} :
     /\ new[t] # NoRow
     /\ Clash(new[s], new[t]) \/ Clash(new[s], appts[req[t].appt])}

ClashingRows(s) == {a \in Appts \ {req[s].appt} : Clash(new[s], appts[a])}

(* Variant: a move nobody is told of. *)
StepAfterSilentMove(op) ==
  IF op \in {"create_public", "complete", "reschedule"} THEN "commit" ELSE "notify"

(* Which operations tell the client: all but complete and a public booking. *)
StepAfterWrite(op) == IF op \in {"create_public", "complete"} THEN "commit" ELSE "notify"

(* Variant: no exclusion constraint in the schema, has_conflict alone. *)
PassUnchecked(s) ==
  /\ pc[s] = "constrain"
  /\ Goto(s, StepAfterWrite(req[s].op))
  /\ UNCHANGED <<stored, sent, began, req, snap, new, match>>

PassConstraints(s) ==
  /\ pc[s] = "constrain"
  /\ ~IllFormed(new[s])
  /\ Rivals(s) = {}
  /\ ClashingRows(s) = {}
  /\ Goto(s, StepAfterWrite(req[s].op))
  /\ UNCHANGED <<stored, sent, began, req, snap, new, match>>

(* IntegrityError (409 from a creation or a move, 500 from a transition) or *)
(* DataError: a clashing row nobody is changing settles it at once.         *)
RefuseByConstraints(s) ==
  /\ pc[s] = "constrain"
  /\ \/ IllFormed(new[s])
     \/ \E a \in ClashingRows(s) : \A t \in Sessions \ {s} : ~HoldsRow(t, a)
  /\ Rollback(s)

-----------------------------------------------------------------------------
(* Messages and the waitlist                                               *)

NoticeType(op) ==
  CASE op \in {"create_staff", "confirm"} -> "confirmation"
    [] op \in {"cancel", "no_show"}       -> "cancellation"
    [] OTHER                              -> "reschedule"

(* The row the re-fetch after the flush returns. *)
Refetched(s) == IF new[s] # NoRow THEN new[s] ELSE snap[s]

StepAfterNotice(op) == IF op \in {"cancel", "no_show"} THEN "match" ELSE "commit"

(* send_notification: the provider is called inside the transaction. *)
Notify(s) ==
  /\ pc[s] = "notify"
  /\ sent' = sent \cup {[type  |-> NoticeType(req[s].op),
                         to    |-> req[s].appt,
                         start |-> Refetched(s).start]}
  /\ Goto(s, StepAfterNotice(req[s].op))
  /\ UNCHANGED <<stored, began, req, snap, new, match>>

(* promote_next_match: the SELECT. *)
FindMatch(s) ==
  /\ pc[s] = "match"
  /\ \/ \E e \in Entries :
          /\ IsOldestMatch(e, new[s])
          /\ match' = [match EXCEPT ![s] = e]
          /\ Goto(s, "promote")
     \/ /\ \A e \in Entries : ~Matches(e, new[s])
        /\ Goto(s, "commit")
        /\ UNCHANGED match
  /\ UNCHANGED <<stored, sent, began, req, snap, new>>

(* Variant: a promotion without its message. *)
StepWithoutOffer == "commit"

StepAfterPromotion == "offer"

(* promote_next_match: the UPDATE, once the entry's row lock is free. *)
PromoteEntry(s) ==
  /\ pc[s] = "promote"
  /\ \A t \in Sessions \ {s} : ~HoldsEntry(t, match[s])
  /\ Goto(s, StepAfterPromotion)
  /\ UNCHANGED <<stored, sent, began, req, snap, new, match>>

(* promote_next_match: the offer goes to the entry's client. *)
Offer(s) ==
  /\ pc[s] = "offer"
  /\ sent' = sent \cup {[type |-> "waitlist_promotion", to |-> match[s], start |-> new[s].start]}
  /\ Goto(s, "commit")
  /\ UNCHANGED <<stored, began, req, snap, new, match>>

-----------------------------------------------------------------------------
(* The end of a request                                                    *)

(* Variant: from_status is the status the row has when the request commits. *)
HistoryEntryAtCommit(s) ==
  [from |-> IF req[s].op \in Creations THEN NoStatus ELSE appts[req[s].appt].status,
   to   |-> new[s].status]

(* The status_history row of a creation or a transition: from_status is the *)
(* status that was read.                                                    *)
HistoryEntry(s) ==
  [from |-> IF req[s].op \in Creations THEN NoStatus ELSE snap[s].status,
   to   |-> new[s].status]

Commit(s) ==
  /\ pc[s] = "commit"
  /\ appts' = IF new[s] = NoRow THEN appts ELSE [appts EXCEPT ![req[s].appt] = new[s]]
  /\ history' = IF req[s].op = "reschedule" THEN history
                ELSE [history EXCEPT ![req[s].appt] = Append(@, HistoryEntry(s))]
  /\ waitlist' = IF match[s] = NoEntry THEN waitlist ELSE WithPromotion(match[s])
  /\ Goto(s, "idle")
  /\ req' = [req EXCEPT ![s] = NoRequest]
  /\ snap' = [snap EXCEPT ![s] = NoRow]
  /\ new' = [new EXCEPT ![s] = NoRow]
  /\ match' = [match EXCEPT ![s] = NoEntry]
  /\ UNCHANGED <<service, sent, began>>

(* The messaging provider raises. *)
ProviderFails(s) ==
  /\ pc[s] \in {"notify", "offer"}
  /\ Rollback(s)

(* Whom a blocked session waits for. *)
WaitsFor(s) ==
  CASE pc[s] = "write" /\ EmitsStatement(s) ->
         {t \in Sessions \ {s} : HoldsRow(t, req[s].appt)}
    [] pc[s] = "constrain" /\ ~IllFormed(new[s]) -> Rivals(s)
    [] pc[s] = "promote" -> {t \in Sessions \ {s} : HoldsEntry(t, match[s])}
    [] OTHER -> {}

(* PostgreSQL's deadlock detector: sessions that wait for one another in a  *)
(* circle, which two flushes checking each other's rows do, lose one.       *)
OnCycle(s) ==
  \E C \in SUBSET Sessions :
    /\ s \in C
    /\ \A t \in C : /\ WaitsFor(t) \cap C # {}
                    /\ \E u \in C : t \in WaitsFor(u)

DeadlockVictim(s) ==
  /\ OnCycle(s)
  /\ Rollback(s)

(* The process or its connection dies: PostgreSQL rolls back. *)
Crash(s) ==
  /\ pc[s] # "idle"
  /\ Rollback(s)

-----------------------------------------------------------------------------
(* The other requests of the module's world, of one statement each         *)

Join(e) ==
  /\ JoinWaitlist(e)
  /\ UNCHANGED <<appts, history, service, sent, began, requested>>

LeaveWaitlist(e) ==
  /\ \A s \in Sessions : ~HoldsEntry(s, e)
  /\ CancelWaitlistEntry(e)
  /\ UNCHANGED <<appts, history, service, sent, began, requested>>

(* update_service: PATCH of the duration or of requires_room. *)
PatchService ==
  /\ service' \in Services \ {service}
  /\ UNCHANGED <<appts, history, waitlist, sent, began, requested>>

-----------------------------------------------------------------------------
Arrive(s) == StartCreate(s) \/ StartTransition(s) \/ StartReschedule(s)

Advance(s) ==
  \/ LoadService(s)
  \/ CheckEmployee(s) \/ CheckRoom(s) \/ RefuseTaken(s)
  \/ WriteRow(s) \/ SkipWrite(s)
  \/ PassConstraints(s) \/ RefuseByConstraints(s)
  \/ Notify(s) \/ ProviderFails(s)
  \/ FindMatch(s) \/ PromoteEntry(s) \/ Offer(s)
  \/ Commit(s)
  \/ DeadlockVictim(s)

Next ==
  \/ \E s \in Sessions : Arrive(s)
  \/ \E s \in Sessions : Advance(s)
  \/ \E s \in Sessions : Crash(s)
  \/ \E e \in Entries : Join(e) \/ LeaveWaitlist(e)
  \/ PatchService

Spec == Init /\ [][Next]_vars

(* The event loop resumes every request whose await is ready, PostgreSQL    *)
(* grants a free lock to its waiter and breaks every deadlock.              *)
FairSpec == Spec /\ \A s \in Sessions : WF_vars(Advance(s))

-----------------------------------------------------------------------------
(* Safety                                                                  *)

(* No employee and no room is ever committed twice at one time, although    *)
(* has_conflict runs before the write and sees commits only.                *)
NoDoubleBooking ==
  \A a, b \in Appts : a # b => ~Clash(appts[a], appts[b])

(* A request whose write passed the constraints, and may have told its      *)
(* client so, until it commits.                                             *)
Granted(s) ==
  new[s] # NoRow /\ pc[s] \in {"notify", "match", "promote", "offer", "commit"}

(* Two requests under way are never both past the constraints with clashing *)
(* rows, and none is past them with a row that clashes with a committed     *)
(* appointment: a message about a slot is never contradicted by another     *)
(* request that was granted the slot, whichever commits first.              *)
GrantedSlotsDisjoint ==
  \A s \in Sessions : Granted(s) =>
    /\ \A t \in Sessions \ {s} : Granted(t) => ~Clash(new[s], new[t])
    /\ \A a \in Appts \ {req[s].appt} : ~Clash(new[s], appts[a])

(* The audit trail never loses track of the row: the last history row of    *)
(* an appointment says the status it has, whatever requests overlapped.     *)
HistoryAgrees ==
  \A a \in Appts :
    IF appts[a] = NoRow THEN history[a] = <<>>
    ELSE /\ history[a] # <<>>
         /\ history[a][Len(history[a])].to = appts[a].status

(* Read by itself the audit trail is a legal life: it begins with a         *)
(* creation, and every later row is an edge of the status graph from a      *)
(* status the appointment was recorded to have, although overlapping        *)
(* transitions may take the row itself along no edge of the graph.          *)
TrailFollowsGraph ==
  \A a \in Appts : \A i \in DOMAIN history[a] :
    LET h == history[a][i] IN
    IF i = 1 THEN h.from = NoStatus /\ h.to \in {Pending, Confirmed}
    ELSE /\ \E j \in 1 .. i-1 : history[a][j].to = h.from
         /\ h.to \in AllowedTransitions[h.from]

(* An offer of a slot within the window of entry e is out. *)
OfferOut(e) ==
  \E m \in sent : /\ m.type = "waitlist_promotion"
                  /\ m.to = e
                  /\ waitlist[e].from <= m.start
                  /\ m.start <= waitlist[e].to

(* Nobody is moved up the waitlist without being told: a promoted entry was *)
(* offered a slot its wish covers, before the promotion was committed.      *)
PromotionsOffered ==
  \A e \in Entries :
    waitlist[e] # NoEntry /\ waitlist[e].status = Promoted => OfferOut(e)

(* The deadlock detector takes no request whose client has been told: every *)
(* circle of waits is one of constraint checks, which come before the       *)
(* message; the row locks of the flush and of the promotion never close one.*)
VictimsToldNobody == \A s \in Sessions : OnCycle(s) => pc[s] = "constrain"

-----------------------------------------------------------------------------
(* What a step may never do                                                *)

(* The message of this type about appointment a, with the time row says, is *)
(* out.                                                                     *)
Told(type, a, row) == [type |-> type, to |-> a, start |-> row.start] \in sent

(* The client hears first: a commit that confirms, cancels or moves an      *)
(* appointment follows a message that says so and carries the time the      *)
(* appointment then has.                                                    *)
ChangesAnnounced ==
  [][\A a \in Appts : appts'[a] # appts[a] =>
       LET was == appts[a]  is == appts'[a] IN
       /\ is.status = Confirmed /\ ~(was # NoRow /\ was.status = Confirmed) =>
            Told("confirmation", a, is)
       /\ is.status = Cancelled /\ was.status # Cancelled => Told("cancellation", a, is)
       /\ was # NoRow /\ <<is.start, is.end>> # <<was.start, was.end>> =>
            Told("reschedule", a, is)]_vars

(* Overlapping edits of one appointment do not undo each other: no commit   *)
(* changes both its status and its times, so a move leaves the status it    *)
(* finds and a transition leaves the times it finds.                        *)
EditsKeptApart ==
  [][\A a \in Appts :
       appts[a] # NoRow /\ appts'[a].status # appts[a].status =>
         appts'[a].start = appts[a].start /\ appts'[a].end = appts[a].end]_vars

(* "Any transition not listed here is rejected, so status can never move    *)
(* via an arbitrary router-level write": a committed cancelled or completed *)
(* appointment keeps its status.                                            *)
TerminalStatusIsFinal ==
  [][\A a \in Appts :
       appts[a] # NoRow /\ Terminal(appts[a].status) => appts'[a].status = appts[a].status]_vars

(* "Denormalized from starts_at + service.duration_minutes": an appointment *)
(* lasts as long as some version of its service said.                       *)
LengthFromService ==
  \A a \in Appts : appts[a] # NoRow =>
    \E v \in Services : appts[a].end = appts[a].start + v.duration

(* "The moment a slot frees up is exactly this transition": the waitlist is *)
(* offered a slot only when an appointment of the calendar gives one up.    *)
PromotionFreesSlot ==
  [][\A e \in Entries :
       waitlist[e] # NoEntry /\ waitlist'[e].status = Promoted /\ waitlist[e].status # Promoted =>
         \E a \in Appts : Active(appts[a]) /\ ~Active(appts'[a])]_vars

(* What overlapping edits break holds of every commit over the very row its *)
(* request read: the status moves along the graph, a terminal row stays as  *)
(* it is, new times last as long as some version of the service said, and   *)
(* only a slot given up is offered to the waitlist.                         *)
FreshEditsSound ==
  [][\A s \in Sessions :
       LET was == appts[req[s].appt]  is == appts'[req[s].appt] IN
       pc[s] = "commit" /\ pc'[s] = "idle" /\ snap[s] = was /\ stored' # stored =>
         /\ was # NoRow =>
              /\ is.status # was.status => is.status \in AllowedTransitions[was.status]
              /\ ~Terminal(was.status)
         /\ was = NoRow \/ <<is.start, is.end>> # <<was.start, was.end>> =>
              \E v \in Services : is.end = is.start + v.duration
         /\ waitlist' # waitlist => Active(was) /\ ~Active(is)]_vars

-----------------------------------------------------------------------------
(* Refinement and progress                                                 *)

(* The slot a committed row holds in the abstract calendar. *)
HeldSlot(r) ==
  IF Active(r) THEN [employee |-> r.employee, room |-> r.room, start |-> r.start, end |-> r.end]
  ELSE NoRow

Agenda == INSTANCE Calendar WITH booked <- [a \in Appts |-> HeldSlot(appts[a])], Free <- NoRow

(* The committed appointments behave as the abstract calendar: requests,    *)
(* locks and races add no step a single client at a time could not take.    *)
ImplementsCalendar == Agenda!Spec

(* Every request ends, answered or rolled back: no lock wait and no circle  *)
(* of constraint checks lasts.                                              *)
RequestsEnd == \A s \in Sessions : pc[s] # "idle" ~> pc[s] = "idle"

-----------------------------------------------------------------------------
(* The inductive invariant                                                 *)

BeforeWrite == {"idle", "load", "check", "checkroom", "write"}
AfterMatch  == {"promote", "offer"}

(* Where a request is says what its session knows. *)
SessionShape(s) ==
  /\ pc[s] = "idle" <=> req[s] = NoRequest
  /\ pc[s] \in BeforeWrite => new[s] = NoRow
  /\ pc[s] \in {"constrain", "match"} \cup AfterMatch => new[s] # NoRow
  /\ pc[s] \in AfterMatch => match[s] # NoEntry
  /\ match[s] # NoEntry => waitlist[match[s]] # NoEntry
  /\ pc[s] # "idle" =>
       /\ req[s].op \in Creations => appts[req[s].appt] = NoRow
       /\ req[s].op \notin Creations => appts[req[s].appt] # NoRow /\ snap[s] # NoRow
       /\ pc[s] = "load" => req[s].op = "reschedule" /\ req[s].start \in Starts
       /\ pc[s] \in {"notify", "commit"} /\ new[s] = NoRow => req[s].op = "reschedule"

(* What an uncommitted version may differ in from the row it replaces. *)
WriteKeeps(s) ==
  new[s] # NoRow /\ appts[req[s].appt] # NoRow =>
    LET row == appts[req[s].appt] IN
    /\ new[s].employee = row.employee
    /\ new[s].room = row.room
    /\ \/ req[s].op = "reschedule" /\ new[s].status = row.status
       \/ req[s].op \in Transitions /\ new[s].start = row.start /\ new[s].end = row.end

(* One writer per row, and nobody else touches a row being created. *)
RowsApart(s, t) ==
  pc[s] # "idle" /\ pc[t] # "idle" /\ req[s].appt = req[t].appt =>
    /\ new[s] = NoRow \/ new[t] = NoRow
    /\ req[s].op \notin Creations

SessionsOK ==
  /\ \A s \in Sessions : SessionShape(s) /\ WriteKeeps(s)
  /\ \A s \in Sessions : \A t \in Sessions \ {s} : RowsApart(s, t)

IInv ==
  /\ TypeOK
  /\ SessionsOK
  /\ NoDoubleBooking
  /\ GrantedSlotsDisjoint
  /\ HistoryAgrees

(* The status an uncommitted version has, and the message about it once the *)
(* request is past its messages.                                            *)
NoticeSent(s) ==
  new[s] # NoRow =>
    /\ req[s].op \in Creations => new[s].status = InitialStatus(req[s].op)
    /\ req[s].op \in Transitions => new[s].status = Target(req[s].op)
    /\ pc[s] \in {"match", "promote", "offer", "commit"} /\ StepAfterWrite(req[s].op) = "notify" =>
         Told(NoticeType(req[s].op), req[s].appt, new[s])

(* The entry a session picked fits the slot, and then has its offer. *)
OfferFits(s) ==
  match[s] # NoEntry =>
    /\ pc[s] \in AfterMatch \cup {"commit"}
    /\ pc[s] \in AfterMatch => /\ waitlist[match[s]].from <= new[s].start
                              /\ new[s].start <= waitlist[match[s]].to
    /\ pc[s] = "commit" => OfferOut(match[s])

MessagesOK == \A s \in Sessions : NoticeSent(s) /\ OfferFits(s)

(* The status a transition read is in the trail, and leads where it goes;   *)
(* the times of a creation or a move are those of a service; the version    *)
(* written is the one the row as it still is gives.                         *)
EditKnown(s) ==
  /\ pc[s] # "idle" =>
       LET row == snap[s]  trail == history[req[s].appt] IN
       /\ req[s].op \in Transitions =>
            /\ Target(req[s].op) \in AllowedTransitions[row.status]
            /\ \E i \in DOMAIN trail : trail[i].to = row.status
       /\ req[s].op = "reschedule" /\ (pc[s] \in BeforeWrite \/ new[s] # NoRow) =>
            row.status \notin {Cancelled, Completed}
       /\ req[s].op \notin Transitions /\ pc[s] # "load" =>
            \E v \in Services : req[s].end = req[s].start + v.duration
       /\ new[s] # NoRow => new[s] = NewVersion(s)
  /\ pc[s] \in {"match"} \cup AfterMatch \/ match[s] # NoEntry =>
       pc[s] # "idle" /\ new[s] # NoRow /\ req[s].op \in {"cancel", "no_show"}

EditsOK == \A s \in Sessions : EditKnown(s)
=============================================================================
