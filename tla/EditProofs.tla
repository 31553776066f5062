----------------------------- MODULE EditProofs -----------------------------
(***************************************************************************)
(* Proofs about what the requests of AppointmentService make of the rows   *)
(* they read: the audit trail is a legal life of every appointment, and a  *)
(* commit over the very row its request read is sound in all that          *)
(* overlapping edits may break.                                            *)
(*                                                                         *)
(* Both rest on EditsOK, preserved on top of IInv: a trail only grows, so  *)
(* a status that was read stays in it, and the row lock keeps the row a    *)
(* version was made from as it was until the commit.                       *)
(***************************************************************************)
EXTENDS AppointmentServiceProofs

(* A trail keeps its rows. *)
TrailsGrow ==
  \A a \in Appts : \A i \in DOMAIN history[a] :
    i \in DOMAIN history'[a] /\ history'[a][i] = history[a][i]

Untouched(t) ==
  /\ pc'[t] = pc[t]
  /\ req'[t] = req[t]
  /\ snap'[t] = snap[t]
  /\ new'[t] = new[t]
  /\ match'[t] = match[t]

(* A session whose own variables stay knows what it knew, as long as the    *)
(* row it has written over stays.                                           *)
LEMMA EditFrame ==
  ASSUME IInv, NEW t \in Sessions, EditKnown(t), Untouched(t), TrailsGrow,
         pc[t] # "idle" /\ new[t] # NoRow => appts'[req[t].appt] = appts[req[t].appt]
  PROVE  EditKnown(t)'
<1>1. pc[t] # "idle" => req[t].appt \in Appts
  BY RequestUnderWay DEF IInv, Request
<1>2. pc[t] # "idle" /\ new[t] # NoRow => NewVersion(t)' = NewVersion(t)
  BY DEF NewVersion, Untouched
<1>3. pc[t] # "idle" => \A i \in DOMAIN history[req[t].appt] :
        i \in DOMAIN history'[req[t].appt] /\ history'[req[t].appt][i] = history[req[t].appt][i]
  BY <1>1 DEF TrailsGrow
<1> QED
  BY <1>2, <1>3 DEF EditKnown, Untouched, BeforeWrite, AfterMatch

(* A step of session s that stores nothing. *)
LEMMA LocalEdits ==
  ASSUME IInv, EditsOK, NEW s \in Sessions, UNCHANGED <<appts, history>>, EditKnown(s)',
         \A t \in Sessions \ {s} : Untouched(t)
  PROVE  EditsOK'
<1>1. TrailsGrow
  BY DEF TrailsGrow
<1>2. ASSUME NEW t \in Sessions \ {s}
      PROVE  EditKnown(t)'
  BY <1>1, EditFrame DEF EditsOK
<1> QED
  BY <1>2 DEF EditsOK

-----------------------------------------------------------------------------
(* Every step keeps what sessions know                                     *)

LEMMA RollbackEdits ==
  ASSUME IInv, EditsOK, NEW s \in Sessions, Rollback(s)
  PROVE  EditsOK'
<1>1. EditKnown(s)'
  BY DEF Rollback, Goto, IInv, TypeOK, EditKnown, AfterMatch
<1>2. \A t \in Sessions \ {s} : Untouched(t)
  BY DEF Rollback, Goto, IInv, TypeOK, Untouched
<1> QED
  BY <1>1, <1>2, LocalEdits DEF Rollback, stored

(* What an arrival knows is what it has just read. *)
LEMMA ArriveEdits ==
  ASSUME IInv, EditsOK, NEW s \in Sessions, Arrive(s)
  PROVE  EditsOK'
<1>1. pc[s] = "idle" /\ new[s] = NoRow /\ match[s] = NoEntry
  BY DEF Arrive, StartCreate, StartTransition, StartReschedule, Admit, IInv, SessionsOK, SessionShape,
         BeforeWrite, EditsOK, EditKnown
<1>2. UNCHANGED <<appts, history, new, match>>
  BY DEF Arrive, StartCreate, StartTransition, StartReschedule, Admit, stored
<1>3. \A t \in Sessions \ {s} : Untouched(t)
  BY DEF Arrive, StartCreate, StartTransition, StartReschedule, Admit, Goto, Untouched, IInv, TypeOK
<1>4. EditKnown(s)'
  <2>1. CASE StartCreate(s)
    <3>1. PICK op \in Creations, a \in Appts, e \in Employees, r \in Rooms \cup {NoRoom}, t \in Starts :
            Admit(s, [op |-> op, appt |-> a, employee |-> e,
                      room |-> IF service.requiresRoom THEN r ELSE NoRoom,
                      start |-> t, end |-> t + service.duration], "check")
      BY <2>1 DEF StartCreate
    <3>2. /\ pc'[s] = "check" /\ req'[s].op = op
          /\ req'[s].end = req'[s].start + service.duration
      BY <3>1 DEF Admit, Goto, IInv, TypeOK
    <3>3. service \in Services /\ op \notin Transitions /\ op # "reschedule"
      BY DEF IInv, TypeOK, Creations, Transitions
    <3> QED
      BY <1>1, <1>2, <3>2, <3>3 DEF EditKnown, AfterMatch
  <2>2. CASE StartTransition(s)
    <3>1. PICK op \in Transitions, a \in Appts :
            /\ appts[a] # NoRow
            /\ Target(op) \in AllowedTransitions[appts[a].status]
            /\ Admit(s, [op |-> op, appt |-> a, employee |-> appts[a].employee, room |-> appts[a].room,
                         start |-> appts[a].start, end |-> appts[a].end], "write")
            /\ snap' = [snap EXCEPT ![s] = appts[a]]
      BY <2>2 DEF StartTransition
    <3>2. pc'[s] = "write" /\ req'[s].op = op /\ req'[s].appt = a /\ snap'[s] = appts[a]
      BY <3>1 DEF Admit, Goto, IInv, TypeOK
    <3>3. \E i \in DOMAIN history[a] : history[a][i].to = appts[a].status
      <4>1. history[a] # <<>> /\ history[a][Len(history[a])].to = appts[a].status
        BY <3>1 DEF IInv, HistoryAgrees
      <4>2. history[a] \in Seq(HistoryRow)
        BY DEF IInv, TypeOK
      <4>3. Len(history[a]) \in DOMAIN history[a]
        BY <4>1, <4>2
      <4> QED
        BY <4>1, <4>3
    <3> QED
      BY <1>1, <1>2, <3>1, <3>2, <3>3 DEF EditKnown, Transitions, AfterMatch
  <2>3. CASE StartReschedule(s)
    <3>1. PICK a \in Appts, t \in Starts :
            /\ appts[a].status \notin {Cancelled, Completed}
            /\ Admit(s, [op |-> "reschedule", appt |-> a, employee |-> appts[a].employee, room |-> appts[a].room,
                         start |-> t, end |-> appts[a].end], "load")
            /\ snap' = [snap EXCEPT ![s] = appts[a]]
      BY <2>3 DEF StartReschedule
    <3>2. pc'[s] = "load" /\ req'[s].op = "reschedule" /\ snap'[s] = appts[a]
      BY <3>1 DEF Admit, Goto, IInv, TypeOK
    <3> QED
      BY <1>1, <1>2, <3>1, <3>2 DEF EditKnown, Transitions, AfterMatch
  <2> QED
    BY <2>1, <2>2, <2>3 DEF Arrive
<1> QED
  BY <1>2, <1>3, <1>4, LocalEdits

LEMMA LoadServiceEdits ==
  ASSUME IInv, EditsOK, NEW s \in Sessions, LoadService(s)
  PROVE  EditsOK'
<1>1. /\ pc[s] = "load" /\ req[s] \in Request /\ req[s].op = "reschedule" /\ new[s] = NoRow
      /\ EditKnown(s) /\ service \in Services
  BY RequestUnderWay DEF LoadService, IInv, TypeOK, SessionsOK, SessionShape, BeforeWrite, EditsOK
<1>2. /\ req'[s] = [req[s] EXCEPT !.end = req[s].start + service.duration]
      /\ pc'[s] = "check" /\ UNCHANGED <<appts, history, snap, new, match>>
  BY DEF LoadService, Goto, IInv, TypeOK, stored
<1>3. req'[s].op = "reschedule" /\ req'[s].end = req'[s].start + service.duration
  BY <1>1, <1>2 DEF Request
<1>4. EditKnown(s)'
  BY <1>1, <1>2, <1>3 DEF EditKnown, Transitions, AfterMatch, BeforeWrite
<1>5. \A t \in Sessions \ {s} : Untouched(t)
  BY DEF LoadService, Goto, Untouched, IInv, TypeOK
<1> QED
  BY <1>2, <1>4, <1>5, LocalEdits

LEMMA WriteRowEdits ==
  ASSUME IInv, EditsOK, NEW s \in Sessions, WriteRow(s)
  PROVE  EditsOK'
<1>1. pc[s] = "write" /\ EditKnown(s) /\ NewVersion(s) \in Row
  BY NewVersionRow DEF WriteRow, IInv, EditsOK
<1>2. /\ new'[s] = NewVersion(s) /\ pc'[s] = "constrain"
      /\ UNCHANGED <<appts, history, req, snap, match>>
  BY DEF WriteRow, Goto, IInv, TypeOK, stored
<1>3. NewVersion(s)' = NewVersion(s) /\ NewVersion(s) # NoRow
  BY <1>1, <1>2, NoRowAssumption DEF NewVersion
<1>4. EditKnown(s)'
  BY <1>1, <1>2, <1>3 DEF EditKnown, AfterMatch, BeforeWrite
<1>5. \A t \in Sessions \ {s} : Untouched(t)
  BY DEF WriteRow, Goto, Untouched, IInv, TypeOK
<1> QED
  BY <1>2, <1>4, <1>5, LocalEdits

LEMMA SkipWriteEdits ==
  ASSUME IInv, EditsOK, NEW s \in Sessions, SkipWrite(s)
  PROVE  EditsOK'
<1>1. pc[s] = "write" /\ EditKnown(s) /\ new[s] = NoRow /\ req[s].op = "reschedule"
  BY DEF SkipWrite, EmitsStatement, IInv, SessionsOK, SessionShape, BeforeWrite, EditsOK
<1>2. pc'[s] = "notify" /\ UNCHANGED <<appts, history, req, new, match>>
  BY DEF SkipWrite, Goto, IInv, TypeOK, stored
<1>3. EditKnown(s)'
  BY <1>1, <1>2 DEF EditKnown, AfterMatch, BeforeWrite, Transitions
<1>4. \A t \in Sessions \ {s} : Untouched(t)
  BY DEF SkipWrite, Goto, Untouched, IInv, TypeOK
<1> QED
  BY <1>2, <1>3, <1>4, LocalEdits

(* A step that moves the request on and picks no entry. *)
LEMMA MoveOnEdits ==
  ASSUME IInv, EditsOK, NEW s \in Sessions, NEW step, Goto(s, step), pc[s] \notin {"idle", "load"},
         step \notin {"idle", "load"}, step \in BeforeWrite => pc[s] \in BeforeWrite,
         step \in {"match"} \cup AfterMatch =>
           pc[s] \in {"match"} \cup AfterMatch \/ (new[s] # NoRow /\ req[s].op \in {"cancel", "no_show"}),
         UNCHANGED <<appts, history, req, snap, new, match>>
  PROVE  EditsOK'
<1>1. EditKnown(s) /\ pc'[s] = step
  BY DEF EditsOK, Goto, IInv, TypeOK
<1>2. NewVersion(s)' = NewVersion(s)
  BY DEF NewVersion
<1>3. EditKnown(s)'
  BY <1>1, <1>2 DEF EditKnown
<1>4. \A t \in Sessions \ {s} : Untouched(t)
  BY DEF Goto, Untouched, IInv, TypeOK
<1> QED
  BY <1>3, <1>4, LocalEdits

LEMMA FindMatchEdits ==
  ASSUME IInv, EditsOK, NEW s \in Sessions, FindMatch(s)
  PROVE  EditsOK'
<1>1. pc[s] = "match" /\ EditKnown(s)
  BY DEF FindMatch, EditsOK
<1>2. pc'[s] \in {"promote", "commit"} /\ UNCHANGED <<appts, history, req, snap, new>>
  BY DEF FindMatch, Goto, IInv, TypeOK, stored
<1>3. NewVersion(s)' = NewVersion(s)
  BY <1>2 DEF NewVersion
<1>4. EditKnown(s)'
  BY <1>1, <1>2, <1>3 DEF EditKnown, BeforeWrite, AfterMatch
<1>5. \A t \in Sessions \ {s} : Untouched(t)
  BY DEF FindMatch, Goto, Untouched, IInv, TypeOK
<1> QED
  BY <1>2, <1>4, <1>5, LocalEdits

-----------------------------------------------------------------------------
(* The commit                                                              *)

LEMMA AppendKeeps ==
  ASSUME NEW S, NEW q \in Seq(S), NEW e \in S
  PROVE  /\ DOMAIN Append(q, e) = 1 .. Len(q) + 1
         /\ DOMAIN q = 1 .. Len(q) /\ Len(q) \in Nat
         /\ \A i \in 1 .. Len(q) : Append(q, e)[i] = q[i]
         /\ Append(q, e)[Len(q) + 1] = e
  OBVIOUS

(* A commit appends one row to the trail of its appointment, or none.       *)
LEMMA CommitTrail ==
  ASSUME IInv, NEW s \in Sessions, Commit(s)
  PROVE  /\ req[s] \in Request /\ req[s].appt \in Appts
         /\ \A a \in Appts \ {req[s].appt} : history'[a] = history[a]
         /\ req[s].op = "reschedule" => history' = history
         /\ req[s].op # "reschedule" =>
              /\ history[req[s].appt] \in Seq(HistoryRow)
              /\ HistoryEntry(s) \in HistoryRow
              /\ history'[req[s].appt] = Append(history[req[s].appt], HistoryEntry(s))
<1>1. /\ pc[s] = "commit" /\ req[s] \in Request /\ req[s].appt \in Appts
      /\ history \in [Appts -> Seq(HistoryRow)]
  BY RequestUnderWay DEF Commit, IInv, TypeOK, Request
<1>2. CASE req[s].op = "reschedule"
  BY <1>1, <1>2 DEF Commit
<1>3. CASE req[s].op # "reschedule"
  <2>1. new[s] \in Row
    BY <1>1, <1>3 DEF IInv, TypeOK, SessionsOK, SessionShape
  <2>2. req[s].op \notin Creations => snap[s] \in Row
    BY <1>1 DEF IInv, TypeOK, SessionsOK, SessionShape
  <2>3. HistoryEntry(s) \in HistoryRow
    BY <2>1, <2>2 DEF HistoryEntry, HistoryRow, Row
  <2>4. history' = [history EXCEPT ![req[s].appt] = Append(history[req[s].appt], HistoryEntry(s))]
    BY <1>3 DEF Commit
  <2> QED
    BY <1>1, <1>3, <2>3, <2>4
<1> QED
  BY <1>2, <1>3

LEMMA CommitGrowsTrails ==
  ASSUME IInv, NEW s \in Sessions, Commit(s)
  PROVE  TrailsGrow
<1> SUFFICES ASSUME NEW a \in Appts, NEW i \in DOMAIN history[a]
             PROVE  i \in DOMAIN history'[a] /\ history'[a][i] = history[a][i]
  BY DEF TrailsGrow
<1>1. CASE a # req[s].appt \/ req[s].op = "reschedule"
  BY <1>1, CommitTrail
<1>2. CASE a = req[s].appt /\ req[s].op # "reschedule"
  <2>1. /\ history[a] \in Seq(HistoryRow) /\ HistoryEntry(s) \in HistoryRow
        /\ history'[a] = Append(history[a], HistoryEntry(s))
    BY <1>2, CommitTrail
  <2> QED
    BY <2>1, AppendKeeps
<1> QED
  BY <1>1, <1>2

LEMMA CommitEdits ==
  ASSUME IInv, EditsOK, NEW s \in Sessions, Commit(s)
  PROVE  EditsOK'
<1>1. EditKnown(s)'
  BY DEF Commit, Goto, IInv, TypeOK, EditKnown, AfterMatch
<1>2. ASSUME NEW t \in Sessions \ {s}
      PROVE  EditKnown(t)'
  <2>1. Untouched(t)
    BY DEF Commit, Goto, IInv, TypeOK, Untouched
  <2>2. pc[t] # "idle" /\ new[t] # NoRow => appts'[req[t].appt] = appts[req[t].appt]
    <3>1. /\ new[s] # NoRow => appts' = [appts EXCEPT ![req[s].appt] = new[s]]
          /\ new[s] = NoRow => appts' = appts
          /\ pc[s] # "idle"
      BY CommitStores DEF IInv, Commit
    <3>2. pc[t] # "idle" /\ new[t] # NoRow /\ new[s] # NoRow => req[t].appt # req[s].appt
      BY <3>1 DEF IInv, SessionsOK, RowsApart
    <3>3. pc[t] # "idle" => req[t].appt \in Appts
      BY RequestUnderWay DEF IInv, Request
    <3> QED
      BY <3>1, <3>2, <3>3 DEF IInv, TypeOK
  <2> QED
    BY <2>1, <2>2, CommitGrowsTrails, EditFrame DEF EditsOK
<1> QED
  BY <1>1, <1>2 DEF EditsOK

(* A row appended to a sound trail is a creation on an empty one, or an     *)
(* edge from a status the trail has.                                        *)
LEMMA CommitKeepsTrail ==
  ASSUME IInv, EditsOK, TrailFollowsGraph, NEW s \in Sessions, Commit(s)
  PROVE  TrailFollowsGraph'
<1> DEFINE own == req[s].appt
           h == HistoryEntry(s)
<1>1. pc[s] = "commit" /\ req[s] \in Request /\ own \in Appts /\ EditKnown(s)
  BY CommitTrail DEF Commit, EditsOK
<1> SUFFICES ASSUME NEW a \in Appts, NEW i \in DOMAIN history'[a]
             PROVE  IF i = 1 THEN history'[a][i].from = NoStatus /\ history'[a][i].to \in {Pending, Confirmed}
                    ELSE /\ \E j \in 1 .. i-1 : history'[a][j].to = history'[a][i].from
                         /\ history'[a][i].to \in AllowedTransitions[history'[a][i].from]
  BY DEF TrailFollowsGraph
<1>2. CASE history'[a] = history[a]
  BY <1>2 DEF TrailFollowsGraph
<1>3. CASE history'[a] # history[a]
  <2>1. a = own /\ req[s].op # "reschedule"
    BY <1>3, CommitTrail
  <2> DEFINE q == history[own]
  <2>2. q \in Seq(HistoryRow) /\ h \in HistoryRow /\ history'[own] = Append(q, h)
    BY <2>1, CommitTrail
  <2>3. /\ DOMAIN history'[own] = 1 .. Len(q) + 1
        /\ DOMAIN q = 1 .. Len(q) /\ Len(q) \in Nat
        /\ \A k \in 1 .. Len(q) : history'[own][k] = q[k]
        /\ history'[own][Len(q) + 1] = h
    BY <2>2, AppendKeeps
  <2>4. new[s] # NoRow /\ new[s] = NewVersion(s)
    BY <1>1, <2>1 DEF EditKnown, IInv, SessionsOK, SessionShape
  <2>5. CASE i \in 1 .. Len(q)
    <3>1. IF i = 1 THEN q[i].from = NoStatus /\ q[i].to \in {Pending, Confirmed}
          ELSE /\ \E j \in 1 .. i-1 : q[j].to = q[i].from
               /\ q[i].to \in AllowedTransitions[q[i].from]
      BY <1>1, <2>3, <2>5 DEF TrailFollowsGraph
    <3>2. \A j \in 1 .. i-1 : j \in 1 .. Len(q)
      BY <2>3, <2>5
    <3> HIDE DEF q
    <3> QED
      BY <2>1, <2>3, <2>5, <3>1, <3>2
  <2>6. CASE i = Len(q) + 1 /\ req[s].op \in Creations
    <3>1. appts[own] = NoRow
      BY <1>1, <2>6 DEF IInv, SessionsOK, SessionShape
    <3>2. q = <<>>
      BY <1>1, <3>1 DEF IInv, HistoryAgrees
    <3>3. new[s].status = InitialStatus(req[s].op)
      BY <2>4, <2>6 DEF NewVersion, Creations, Transitions
    <3>4. h.from = NoStatus /\ h.to \in {Pending, Confirmed}
      BY <2>6, <3>3 DEF HistoryEntry, InitialStatus
    <3>5. i = 1
      BY <2>6, <3>2
    <3> HIDE DEF h, q
    <3> QED
      BY <2>1, <2>3, <2>6, <3>4, <3>5
  <2>7. CASE i = Len(q) + 1 /\ req[s].op \in Transitions
    <3>1. /\ Target(req[s].op) \in AllowedTransitions[snap[s].status]
          /\ \E k \in DOMAIN q : q[k].to = snap[s].status
      BY <1>1, <2>7 DEF EditKnown
    <3>2. appts[own] \in Row
      <4>1. req[s].op \notin Creations
        BY <2>7 DEF Creations, Transitions
      <4>2. appts[own] # NoRow
        BY <1>1, <4>1 DEF IInv, SessionsOK, SessionShape
      <4>3. appts \in [Appts -> Row \cup {NoRow}]
        BY DEF IInv, TypeOK
      <4> QED
        BY <1>1, <4>2, <4>3
    <3>3. new[s].status = Target(req[s].op)
      BY <2>4, <2>7, <3>2 DEF NewVersion, Creations, Transitions, Row
    <3>4. h.from = snap[s].status /\ h.to = Target(req[s].op)
      BY <2>7, <3>3 DEF HistoryEntry, Creations, Transitions
    <3>5. PICK k \in 1 .. Len(q) : q[k].to = h.from
      BY <2>3, <3>1, <3>4
    <3>6. i # 1 /\ k \in 1 .. i-1
      BY <2>3, <2>7, <3>5
    <3> HIDE DEF h, q
    <3> QED
      BY <2>1, <2>3, <2>7, <3>1, <3>4, <3>5, <3>6
  <2> QED
    BY <1>1, <2>1, <2>3, <2>5, <2>6, <2>7 DEF Request, Operations
<1> QED
  BY <1>2, <1>3

-----------------------------------------------------------------------------
LEMMA AdvanceEdits ==
  ASSUME IInv, EditsOK, NEW s \in Sessions, Advance(s)
  PROVE  EditsOK'
<1>1. CASE RefuseTaken(s) \/ RefuseByConstraints(s) \/ ProviderFails(s) \/ DeadlockVictim(s)
  BY <1>1, RollbackEdits DEF RefuseTaken, RefuseByConstraints, ProviderFails, DeadlockVictim
<1>2. CASE LoadService(s) \/ WriteRow(s) \/ SkipWrite(s) \/ FindMatch(s) \/ Commit(s)
  BY <1>2, LoadServiceEdits, WriteRowEdits, SkipWriteEdits, FindMatchEdits, CommitEdits
<1>3. CASE CheckEmployee(s) \/ CheckRoom(s)
  <2>1. PICK step \in {"write", "checkroom"} : Goto(s, step)
    BY <1>3 DEF CheckEmployee, CheckRoom
  <2>2. pc[s] \in {"check", "checkroom"} /\ UNCHANGED <<appts, history, req, snap, new, match>>
    BY <1>3 DEF CheckEmployee, CheckRoom, stored
  <2> QED
    BY <2>1, <2>2, MoveOnEdits DEF BeforeWrite, AfterMatch
<1>4. CASE PassConstraints(s)
  <2>1. PICK step \in {"commit", "notify"} : Goto(s, step)
    BY <1>4 DEF PassConstraints, StepAfterWrite
  <2>2. pc[s] = "constrain" /\ UNCHANGED <<appts, history, req, snap, new, match>>
    BY <1>4 DEF PassConstraints, stored
  <2> QED
    BY <2>1, <2>2, MoveOnEdits DEF BeforeWrite, AfterMatch
<1>5. CASE Notify(s)
  <2>1. pc[s] = "notify" /\ UNCHANGED <<appts, history, req, snap, new, match>>
    BY <1>5 DEF Notify, stored
  <2>2. Goto(s, StepAfterNotice(req[s].op)) /\ StepAfterNotice(req[s].op) \in {"match", "commit"}
    BY <1>5 DEF Notify, StepAfterNotice
  <2>3. StepAfterNotice(req[s].op) = "match" => req[s].op \in {"cancel", "no_show"} /\ new[s] # NoRow
    BY <2>1 DEF StepAfterNotice, IInv, SessionsOK, SessionShape
  <2> QED
    BY <2>1, <2>2, <2>3, MoveOnEdits DEF BeforeWrite, AfterMatch
<1>6. CASE PromoteEntry(s) \/ Offer(s)
  <2>1. PICK step \in {"offer", "commit"} : Goto(s, step)
    BY <1>6 DEF PromoteEntry, Offer, StepAfterPromotion
  <2>2. pc[s] \in {"promote", "offer"} /\ UNCHANGED <<appts, history, req, snap, new, match>>
    BY <1>6 DEF PromoteEntry, Offer, stored
  <2> QED
    BY <2>1, <2>2, MoveOnEdits DEF BeforeWrite, AfterMatch
<1> QED
  BY <1>1, <1>2, <1>3, <1>4, <1>5, <1>6 DEF Advance

LEMMA OthersEdits ==
  ASSUME IInv, EditsOK, UNCHANGED <<appts, history, requested>>
  PROVE  EditsOK'
<1>1. TrailsGrow
  BY DEF TrailsGrow
<1>2. ASSUME NEW t \in Sessions
      PROVE  EditKnown(t)'
  <2>1. Untouched(t)
    BY DEF Untouched, requested
  <2> QED
    BY <1>1, <2>1, EditFrame DEF EditsOK
<1> QED
  BY <1>2 DEF EditsOK

LEMMA EditsStep ==
  ASSUME IInv, EditsOK, [Next]_vars
  PROVE  EditsOK'
<1>1. ASSUME NEW e \in Entries, Join(e) \/ LeaveWaitlist(e)
      PROVE  EditsOK'
  BY <1>1, OthersEdits DEF Join, LeaveWaitlist
<1>2. CASE PatchService \/ UNCHANGED vars
  BY <1>2, OthersEdits DEF PatchService, vars, stored
<1>3. ASSUME NEW s \in Sessions, Crash(s)
      PROVE  EditsOK'
  BY <1>3, RollbackEdits DEF Crash
<1> QED
  BY <1>1, <1>2, <1>3, ArriveEdits, AdvanceEdits DEF Next

LEMMA TrailStep ==
  ASSUME IInv, EditsOK, TrailFollowsGraph, [Next]_vars
  PROVE  TrailFollowsGraph'
<1>1. CASE \E s \in Sessions : Commit(s)
  BY <1>1, CommitKeepsTrail
<1>2. CASE ~\E s \in Sessions : Commit(s)
  <2>1. history' = history
    BY <1>2, OnlyCommits
  <2> QED
    BY <2>1 DEF TrailFollowsGraph
<1> QED
  BY <1>1, <1>2

(* What requests know of the rows they read, and the trail they leave. *)
THEOREM EditsInvariant == Spec => [](IInv /\ EditsOK /\ TrailFollowsGraph)
<1>1. Init => EditsOK /\ TrailFollowsGraph
  BY DEF Init, EditsOK, EditKnown, AfterMatch, TrailFollowsGraph
<1>2. IInv /\ EditsOK /\ TrailFollowsGraph /\ [Next]_vars => EditsOK' /\ TrailFollowsGraph'
  BY EditsStep, TrailStep
<1> QED
  BY <1>1, <1>2, Invariant, PTL DEF Spec

(* appointment_status_history: every trail begins with a creation and goes  *)
(* on along the status graph, from statuses the appointment had.            *)
THEOREM TrailsFollowGraph == Spec => []TrailFollowsGraph
  BY EditsInvariant, PTL

(* The only step that ends a request with something stored is its commit.   *)
LEMMA EndsByCommit ==
  ASSUME [Next]_vars, IInv, NEW s \in Sessions, pc[s] # "idle", pc'[s] = "idle", stored' # stored
  PROVE  Commit(s)
<1>1. ASSUME NEW t \in Sessions, Arrive(t) \/ Crash(t)
      PROVE  stored' = stored
  BY <1>1 DEF Arrive, StartCreate, StartTransition, StartReschedule, Admit, Crash, Rollback
<1>2. ASSUME NEW t \in Sessions, Advance(t), ~Commit(t)
      PROVE  stored' = stored
  BY <1>2 DEF Advance, LoadService, CheckEmployee, CheckRoom, RefuseTaken, WriteRow, SkipWrite, PassConstraints,
              RefuseByConstraints, Notify, ProviderFails, FindMatch, PromoteEntry, Offer, DeadlockVictim, Rollback
<1>3. ASSUME NEW t \in Sessions, Commit(t), t # s
      PROVE  pc'[s] = pc[s]
  BY <1>3 DEF Commit, Goto, IInv, TypeOK
<1>4. ASSUME NEW e \in Entries, Join(e) \/ LeaveWaitlist(e)
      PROVE  pc' = pc
  BY <1>4 DEF Join, LeaveWaitlist, requested
<1>5. PatchService => pc' = pc
  BY DEF PatchService, requested
<1>6. UNCHANGED vars => stored' = stored
  BY DEF vars
<1> QED
  BY <1>1, <1>2, <1>3, <1>4, <1>5, <1>6 DEF Next

(* A commit over the row its request read does what its checks allowed.     *)
LEMMA FreshCommitSound ==
  ASSUME IInv, EditsOK, NEW s \in Sessions, Commit(s), snap[s] = appts[req[s].appt], stored' # stored
  PROVE  LET was == appts[req[s].appt]  is == appts'[req[s].appt] IN
         /\ was # NoRow =>
              /\ is.status # was.status => is.status \in AllowedTransitions[was.status]
              /\ ~Terminal(was.status)
         /\ was = NoRow \/ <<is.start, is.end>> # <<was.start, was.end>> =>
              \E v \in Services : is.end = is.start + v.duration
         /\ waitlist' # waitlist => Active(was) /\ ~Active(is)
<1> DEFINE was == appts[req[s].appt]
           is == appts'[req[s].appt]
<1>1. /\ pc[s] = "commit" /\ req[s] \in Request /\ req[s].appt \in Appts /\ EditKnown(s)
      /\ SessionShape(s) /\ was \in Row \cup {NoRow}
  BY CommitTrail DEF Commit, EditsOK, IInv, SessionsOK, TypeOK
<1>2. match[s] = NoEntry => waitlist' = waitlist
  BY DEF Commit
<1>3. new[s] # NoRow
  <2> SUFFICES ASSUME new[s] = NoRow
               PROVE  stored' = stored
    OBVIOUS
  <2>1. req[s].op = "reschedule" /\ match[s] = NoEntry
    BY <1>1 DEF SessionShape, EditKnown
  <2> QED
    BY <1>2, <2>1, CommitTrail DEF Commit, stored
<1>4. is = new[s] /\ new[s] = NewVersion(s)
  BY <1>1, <1>3 DEF Commit, EditKnown, IInv, TypeOK
<1>5. CASE req[s].op \in Creations
  <2>1. was = NoRow /\ is.start = req[s].start /\ is.end = req[s].end
    BY <1>1, <1>4, <1>5 DEF SessionShape, NewVersion, Creations, Transitions
  <2>2. \E v \in Services : req[s].end = req[s].start + v.duration
    BY <1>1, <1>5 DEF EditKnown, Creations, Transitions
  <2>3. waitlist' = waitlist
    BY <1>1, <1>2, <1>5 DEF EditKnown, Creations
  <2> HIDE DEF was, is
  <2> QED
    BY <2>1, <2>2, <2>3 DEF was, is
<1>6. CASE req[s].op \in Transitions
  <2>1. was \in Row /\ was # NoRow /\ snap[s] = was
    BY <1>1, <1>6 DEF SessionShape, Creations, Transitions
  <2>2. is = [was EXCEPT !.status = Target(req[s].op), !.noShow = @ \/ req[s].op = "no_show"]
    BY <1>4, <1>6 DEF NewVersion, Creations, Transitions
  <2>3. is.status = Target(req[s].op) /\ is.start = was.start /\ is.end = was.end
    BY <2>1, <2>2 DEF Row
  <2>4. Target(req[s].op) \in AllowedTransitions[was.status]
    BY <1>1, <1>6, <2>1 DEF EditKnown
  <2>5. was.status # Cancelled
    BY <2>4 DEF AllowedTransitions, Statuses, Pending, Confirmed, Completed, Cancelled
  <2>6. match[s] # NoEntry => is.status = Cancelled
    BY <1>1, <2>3 DEF EditKnown, Target
  <2>7. ~Terminal(was.status)
    BY <2>4 DEF Terminal
  <2>8. waitlist' # waitlist => Active(was) /\ ~Active(is)
    BY <1>2, <2>1, <2>5, <2>6 DEF Active
  <2> QED
    BY <2>1, <2>3, <2>4, <2>7, <2>8
<1>7. CASE req[s].op = "reschedule"
  <2>1. was \in Row /\ was # NoRow /\ snap[s] = was
    BY <1>1, <1>7 DEF SessionShape, Creations
  <2>2. is = [was EXCEPT !.start = IF req[s].start # was.start THEN req[s].start ELSE @,
                         !.end = IF req[s].end # was.end THEN req[s].end ELSE @]
    BY <1>4, <1>7, <2>1 DEF NewVersion, Creations, Transitions
  <2>3. is.start = req[s].start /\ is.end = req[s].end /\ is.status = was.status
    BY <2>1, <2>2 DEF Row
  <2>4. \E v \in Services : req[s].end = req[s].start + v.duration
    BY <1>1, <1>7 DEF EditKnown, Transitions
  <2>5. was.status \in Statuses /\ was.status \notin {Cancelled, Completed}
    BY <1>1, <1>3, <1>7, <2>1 DEF EditKnown, Row
  <2>6. ~Terminal(was.status)
    BY <2>5 DEF Terminal, AllowedTransitions, Statuses, Pending, Confirmed, Completed, Cancelled
  <2>7. waitlist' = waitlist
    BY <1>1, <1>2, <1>7 DEF EditKnown
  <2> HIDE DEF was, is
  <2> QED
    BY <2>3, <2>4, <2>6, <2>7 DEF was, is
<1> QED
  BY <1>1, <1>5, <1>6, <1>7 DEF Request, Operations

(* _transition and reschedule_appointment: whoever commits over the row it  *)
(* read follows the status graph, takes times from the service, and frees   *)
(* a slot before it offers one.                                             *)
THEOREM FreshEditsAreSound == Spec => FreshEditsSound
<1>1. IInv /\ EditsOK /\ [Next]_vars =>
        [\A s \in Sessions :
           LET was == appts[req[s].appt]  is == appts'[req[s].appt] IN
           pc[s] = "commit" /\ pc'[s] = "idle" /\ snap[s] = was /\ stored' # stored =>
             /\ was # NoRow =>
                  /\ is.status # was.status => is.status \in AllowedTransitions[was.status]
                  /\ ~Terminal(was.status)
             /\ was = NoRow \/ <<is.start, is.end>> # <<was.start, was.end>> =>
                  \E v \in Services : is.end = is.start + v.duration
             /\ waitlist' # waitlist => Active(was) /\ ~Active(is)]_vars
  BY EndsByCommit, FreshCommitSound
<1> QED
  BY <1>1, EditsInvariant, PTL DEF Spec, FreshEditsSound
=============================================================================
