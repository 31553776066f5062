---------------------------- MODULE MessageProofs ----------------------------
(***************************************************************************)
(* Proofs about the messages of AppointmentService: what is committed was  *)
(* announced, and nobody is promoted without an offer.                     *)
(*                                                                         *)
(* Both rest on MessagesOK, which says of each session what it has sent by *)
(* the place it is at.  It is preserved on top of IInv: messages are never *)
(* taken back, and an uncommitted version is not changed after its flush.  *)
(***************************************************************************)
EXTENDS AppointmentServiceProofs

(* The window of an entry is what its offers go by. *)
SameWindow(e) ==
  waitlist[e] # NoEntry => /\ waitlist'[e].from = waitlist[e].from
                           /\ waitlist'[e].to = waitlist[e].to

(* No step changes the window of an entry or takes a message back. *)
LEMMA WindowsKept ==
  ASSUME IInv, [Next]_vars
  PROVE  /\ \A e \in Entries : SameWindow(e)
         /\ sent \subseteq sent'
<1>1. CASE UNCHANGED <<waitlist, sent>>
  BY <1>1 DEF SameWindow
<1>2. ASSUME NEW s \in Sessions, Arrive(s)
      PROVE  UNCHANGED <<waitlist, sent>>
  BY <1>2 DEF Arrive, StartCreate, StartTransition, StartReschedule, Admit, stored
<1>3. ASSUME NEW s \in Sessions, Commit(s)
      PROVE  (\A e \in Entries : SameWindow(e)) /\ sent' = sent
  <2>1. CASE match[s] = NoEntry
    BY <1>3, <2>1 DEF Commit, SameWindow
  <2>2. CASE match[s] # NoEntry
    <3>1. match[s] \in Entries /\ waitlist[match[s]] \in WaitlistRow
      BY <2>2 DEF IInv, SessionsOK, SessionShape, TypeOK
    <3>2. waitlist' = [waitlist EXCEPT ![match[s]] = [waitlist[match[s]] EXCEPT !.status = Promoted]]
      BY <1>3, <2>2 DEF Commit, WithPromotion
    <3>3. /\ [waitlist[match[s]] EXCEPT !.status = Promoted].from = waitlist[match[s]].from
          /\ [waitlist[match[s]] EXCEPT !.status = Promoted].to = waitlist[match[s]].to
      BY <3>1 DEF WaitlistRow
    <3> QED
      BY <1>3, <3>1, <3>2, <3>3 DEF Commit, SameWindow, IInv, TypeOK
  <2> QED
    BY <2>1, <2>2
<1>4. ASSUME NEW s \in Sessions, Advance(s)
      PROVE  (\A e \in Entries : SameWindow(e)) /\ sent \subseteq sent'
  <2>1. CASE RefuseTaken(s) \/ RefuseByConstraints(s) \/ ProviderFails(s) \/ DeadlockVictim(s)
    BY <1>1, <2>1 DEF RefuseTaken, RefuseByConstraints, ProviderFails, DeadlockVictim, Rollback, stored
  <2>2. CASE CheckEmployee(s) \/ CheckRoom(s) \/ PassConstraints(s) \/ PromoteEntry(s) \/ FindMatch(s)
    BY <1>1, <2>2 DEF CheckEmployee, CheckRoom, PassConstraints, PromoteEntry, FindMatch, stored
  <2>3. CASE LoadService(s) \/ WriteRow(s) \/ SkipWrite(s)
    BY <1>1, <2>3 DEF LoadService, WriteRow, SkipWrite, stored
  <2>4. CASE Notify(s) \/ Offer(s)
    BY <2>4 DEF Notify, Offer, stored, SameWindow
  <2> QED
    BY <1>3, <1>4, <2>1, <2>2, <2>3, <2>4 DEF Advance
<1>5. ASSUME NEW s \in Sessions, Crash(s)
      PROVE  UNCHANGED <<waitlist, sent>>
  BY <1>5 DEF Crash, Rollback, stored
<1>6. ASSUME NEW e \in Entries, Join(e) \/ LeaveWaitlist(e)
      PROVE  (\A f \in Entries : SameWindow(f)) /\ sent' = sent
  <2>1. CASE Join(e)
    BY <2>1 DEF Join, JoinWaitlist, SameWindow, IInv, TypeOK
  <2>2. CASE LeaveWaitlist(e)
    <3>1. /\ waitlist[e] \in WaitlistRow
          /\ waitlist' = [waitlist EXCEPT ![e] = [waitlist[e] EXCEPT !.status = Cancelled]]
      BY <2>2 DEF LeaveWaitlist, CancelWaitlistEntry, IInv, TypeOK
    <3>2. /\ [waitlist[e] EXCEPT !.status = Cancelled].from = waitlist[e].from
          /\ [waitlist[e] EXCEPT !.status = Cancelled].to = waitlist[e].to
      BY <3>1 DEF WaitlistRow
    <3> QED
      BY <2>2, <3>1, <3>2 DEF LeaveWaitlist, SameWindow, IInv, TypeOK
  <2> QED
    BY <1>6, <2>1, <2>2
<1>7. CASE PatchService \/ UNCHANGED vars
  BY <1>1, <1>7 DEF PatchService, vars, stored
<1> QED
  BY <1>1, <1>2, <1>4, <1>5, <1>6, <1>7 DEF Next

(* An offer that is out stays out, and keeps fitting. *)
LEMMA OfferStays ==
  ASSUME IInv, [Next]_vars, NEW e \in Entries, waitlist[e] # NoEntry, OfferOut(e)
  PROVE  OfferOut(e)'
<1>1. SameWindow(e) /\ sent \subseteq sent'
  BY WindowsKept
<1>2. PICK m \in sent : /\ m.type = "waitlist_promotion"
                        /\ m.to = e
                        /\ waitlist[e].from <= m.start
                        /\ m.start <= waitlist[e].to
  BY DEF OfferOut
<1>3. m \in sent' /\ waitlist'[e].from = waitlist[e].from /\ waitlist'[e].to = waitlist[e].to
  BY <1>1, <1>2 DEF SameWindow
<1> QED
  BY <1>2, <1>3 DEF OfferOut

(* What a session has sent is not forgotten by a step that is not its own, *)
(* nor by one of its own that only moves it along.                         *)
LEMMA MessagesFrame ==
  ASSUME IInv, [Next]_vars, NEW u \in Sessions, NoticeSent(u) /\ OfferFits(u),
         new'[u] = new[u], match'[u] = match[u], req'[u] = req[u],
         \/ pc'[u] = pc[u]
         \/ pc[u] \in {"match", "promote", "offer"} /\ match[u] = NoEntry /\ pc'[u] = "commit"
         \/ pc[u] = "promote" /\ pc'[u] = "offer"
         \/ match[u] = NoEntry /\ pc'[u] \notin {"match", "promote", "offer", "commit"}
  PROVE  NoticeSent(u)' /\ OfferFits(u)'
<1>1. sent \subseteq sent'
  BY WindowsKept
<1>2. NoticeSent(u)'
  BY <1>1 DEF NoticeSent, Told
<1>3. OfferFits(u)'
  <2>1. CASE match[u] = NoEntry
    BY <2>1 DEF OfferFits
  <2>2. CASE match[u] # NoEntry
    <3>1. match[u] \in Entries /\ waitlist[match[u]] # NoEntry
      BY <2>2 DEF IInv, SessionsOK, SessionShape, TypeOK
    <3>2. SameWindow(match[u])
      BY <3>1, WindowsKept
    <3>3. OfferOut(match[u]) => OfferOut(match[u])'
      BY <3>1, OfferStays
    <3> QED
      BY <2>2, <3>1, <3>2, <3>3 DEF OfferFits, AfterMatch, SameWindow, OfferOut
  <2> QED
    BY <2>1, <2>2
<1> QED
  BY <1>2, <1>3

(* A flush gives the version the status its operation stands for. *)
LEMMA WriteRowMessages ==
  ASSUME IInv, NEW s \in Sessions, WriteRow(s), MessagesOK
  PROVE  NoticeSent(s)' /\ OfferFits(s)'
<1>1. req[s] \in Request /\ pc[s] = "write"
  BY RequestUnderWay DEF WriteRow, IInv
<1>2. /\ new'[s] = NewVersion(s) /\ pc'[s] = "constrain"
      /\ UNCHANGED <<req, match>>
  BY DEF WriteRow, Goto, IInv, TypeOK
<1>3. match[s] = NoEntry
  BY <1>1 DEF MessagesOK, OfferFits, AfterMatch
<1>4. req[s].op \in Creations => NewVersion(s).status = InitialStatus(req[s].op)
  <2> SUFFICES ASSUME req[s].op \in Creations
               PROVE  NewVersion(s).status = InitialStatus(req[s].op)
    OBVIOUS
  <2>1. req[s].op \notin Transitions
    BY DEF Transitions, Creations
  <2> QED
    BY <2>1 DEF NewVersion
<1>5. req[s].op \in Transitions => NewVersion(s).status = Target(req[s].op)
  <2> SUFFICES ASSUME req[s].op \in Transitions
               PROVE  NewVersion(s).status = Target(req[s].op)
    OBVIOUS
  <2>1. req[s].op \notin Creations
    BY DEF Transitions, Creations
  <2>2. appts[req[s].appt] \in Row
    BY <1>1, <2>1 DEF IInv, SessionsOK, SessionShape, TypeOK, Request
  <2> QED
    BY <2>1, <2>2 DEF NewVersion, Row
<1> QED
  BY <1>2, <1>3, <1>4, <1>5 DEF NoticeSent, OfferFits

(* The message goes out about the version that will be committed. *)
LEMMA NotifyMessages ==
  ASSUME IInv, NEW s \in Sessions, Notify(s), MessagesOK
  PROVE  NoticeSent(s)' /\ OfferFits(s)'
<1>1. pc[s] = "notify" /\ UNCHANGED <<req, new, match>>
  BY DEF Notify
<1>2. match[s] = NoEntry
  BY <1>1 DEF MessagesOK, OfferFits, AfterMatch
<1>3. NoticeSent(s)'
  <2> SUFFICES ASSUME new[s] # NoRow
               PROVE  NoticeSent(s)'
    BY <1>1 DEF NoticeSent
  <2>1. Told(NoticeType(req[s].op), req[s].appt, new[s])'
    BY <1>1 DEF Notify, Told, Refetched
  <2> QED
    BY <1>1, <2>1 DEF MessagesOK, NoticeSent
<1> QED
  BY <1>1, <1>2, <1>3 DEF OfferFits

(* The entry picked is one whose window has the slot. *)
LEMMA FindMatchMessages ==
  ASSUME IInv, [Next]_vars, NEW s \in Sessions, FindMatch(s), MessagesOK
  PROVE  NoticeSent(s)' /\ OfferFits(s)'
<1>1. pc[s] = "match" /\ UNCHANGED <<waitlist, sent, req, new>>
  BY DEF FindMatch, stored
<1>2. match[s] = NoEntry
  BY <1>1 DEF MessagesOK, OfferFits, AfterMatch
<1>3. NoticeSent(s)'
  BY <1>1 DEF MessagesOK, NoticeSent, Told
<1>4. ASSUME UNCHANGED match
      PROVE  OfferFits(s)'
  BY <1>2, <1>4 DEF OfferFits
<1>5. ASSUME NEW e \in Entries, IsOldestMatch(e, new[s]),
             match' = [match EXCEPT ![s] = e], Goto(s, "promote")
      PROVE  OfferFits(s)'
  <2>1. match'[s] = e /\ pc'[s] = "promote"
    BY <1>5 DEF Goto, IInv, TypeOK
  <2> QED
    BY <1>1, <1>5, <2>1 DEF OfferFits, AfterMatch, IsOldestMatch, Matches
<1>6. OfferFits(s)'
  <2>1. \/ UNCHANGED match
        \/ \E e \in Entries : /\ IsOldestMatch(e, new[s])
                              /\ match' = [match EXCEPT ![s] = e]
                              /\ Goto(s, "promote")
    BY Zenon DEF FindMatch
  <2> QED
    BY <1>4, <1>5, <2>1
<1> QED
  BY <1>3, <1>6

(* The offer names the slot the entry was picked for. *)
LEMMA OfferMessages ==
  ASSUME IInv, NEW s \in Sessions, Offer(s), MessagesOK
  PROVE  NoticeSent(s)' /\ OfferFits(s)'
<1>1. /\ pc[s] = "offer" /\ pc'[s] = "commit"
      /\ UNCHANGED <<waitlist, req, new, match>>
      /\ sent' = sent \cup {[type |-> "waitlist_promotion", to |-> match[s], start |-> new[s].start]}
  BY DEF Offer, Goto, stored, IInv, TypeOK
<1>2. NoticeSent(s)'
  BY <1>1 DEF MessagesOK, NoticeSent, Told
<1>3. /\ waitlist[match[s]].from <= new[s].start
      /\ new[s].start <= waitlist[match[s]].to
  BY <1>1 DEF IInv, SessionsOK, SessionShape, MessagesOK, OfferFits, AfterMatch
<1>4. OfferOut(match[s])'
  <2> DEFINE m == [type |-> "waitlist_promotion", to |-> match[s], start |-> new[s].start]
  <2>1. m \in sent' /\ m.type = "waitlist_promotion" /\ m.to = match'[s] /\ m.start = new[s].start
    BY <1>1
  <2>2. waitlist'[match'[s]].from <= m.start /\ m.start <= waitlist'[match'[s]].to
    BY <1>1, <1>3
  <2> HIDE DEF m
  <2> QED
    BY <2>1, <2>2 DEF OfferOut
<1> QED
  BY <1>1, <1>2, <1>4 DEF OfferFits, AfterMatch

(* Every step keeps the account of the messages. *)
LEMMA MessagesStep ==
  ASSUME IInv, MessagesOK, [Next]_vars
  PROVE  MessagesOK'
<1>1. CASE UNCHANGED <<pc, req, new, match>>
  BY <1>1, MessagesFrame DEF MessagesOK
<1>2. ASSUME NEW s \in Sessions, NoticeSent(s)' /\ OfferFits(s)',
             \A u \in Sessions \ {s} : /\ pc'[u] = pc[u] /\ req'[u] = req[u]
                                       /\ new'[u] = new[u] /\ match'[u] = match[u]
      PROVE  MessagesOK'
  <2>1. ASSUME NEW u \in Sessions \ {s}
        PROVE  NoticeSent(u)' /\ OfferFits(u)'
    BY <1>2, <2>1, MessagesFrame DEF MessagesOK
  <2> QED
    BY <1>2, <2>1 DEF MessagesOK
<1>3. ASSUME NEW s \in Sessions, Rollback(s) \/ Commit(s)
      PROVE  MessagesOK'
  <2>1. /\ new'[s] = NoRow /\ match'[s] = NoEntry
        /\ \A u \in Sessions \ {s} : /\ pc'[u] = pc[u] /\ req'[u] = req[u]
                                     /\ new'[u] = new[u] /\ match'[u] = match[u]
    BY <1>3 DEF Rollback, Commit, Goto, IInv, TypeOK
  <2>2. NoticeSent(s)' /\ OfferFits(s)'
    BY <2>1 DEF NoticeSent, OfferFits
  <2> QED
    BY <1>2, <2>1, <2>2
<1>4. ASSUME NEW s \in Sessions, Arrive(s)
      PROVE  MessagesOK'
  <2>1. PICK r \in Request, step \in {"check", "load", "write"} : IsArrival(s, r, step)
    BY <1>4, Arrival DEF IInv
  <2>2. /\ pc[s] = "idle" /\ UNCHANGED <<new, match>>
        /\ \A u \in Sessions \ {s} : pc'[u] = pc[u] /\ req'[u] = req[u]
    BY <2>1 DEF IsArrival, Admit, Goto, IInv, TypeOK
  <2>3. new[s] = NoRow /\ match[s] = NoEntry
    BY <2>2 DEF IInv, SessionsOK, SessionShape, BeforeWrite, MessagesOK, OfferFits, AfterMatch
  <2>4. NoticeSent(s)' /\ OfferFits(s)'
    BY <2>2, <2>3 DEF NoticeSent, OfferFits
  <2> QED
    BY <1>2, <2>2, <2>4
<1>5. ASSUME NEW s \in Sessions, Advance(s)
      PROVE  MessagesOK'
  <2>1. CASE RefuseTaken(s) \/ RefuseByConstraints(s) \/ ProviderFails(s) \/ DeadlockVictim(s) \/ Commit(s)
    BY <1>3, <2>1 DEF RefuseTaken, RefuseByConstraints, ProviderFails, DeadlockVictim
  <2>2. CASE CheckEmployee(s) \/ CheckRoom(s) \/ LoadService(s) \/ SkipWrite(s)
    <3>1. /\ pc[s] \in BeforeWrite /\ UNCHANGED <<new, match>>
          /\ \A u \in Sessions \ {s} : pc'[u] = pc[u] /\ req'[u] = req[u]
      BY <2>2 DEF CheckEmployee, CheckRoom, LoadService, SkipWrite, Goto, BeforeWrite, IInv, TypeOK
    <3>2. new[s] = NoRow /\ match[s] = NoEntry
      BY <3>1 DEF IInv, SessionsOK, SessionShape, BeforeWrite, MessagesOK, OfferFits, AfterMatch
    <3>3. NoticeSent(s)' /\ OfferFits(s)'
      BY <3>1, <3>2 DEF NoticeSent, OfferFits
    <3> QED
      BY <1>2, <3>1, <3>3
  <2>3. CASE WriteRow(s)
    <3>1. \A u \in Sessions \ {s} : /\ pc'[u] = pc[u] /\ req'[u] = req[u]
                                   /\ new'[u] = new[u] /\ match'[u] = match[u]
      BY <2>3 DEF WriteRow, Goto, IInv, TypeOK
    <3> QED
      BY <1>2, <2>3, <3>1, WriteRowMessages
  <2>4. CASE PassConstraints(s)
    <3>1. /\ pc[s] = "constrain" /\ pc'[s] = StepAfterWrite(req[s].op)
          /\ UNCHANGED <<req, new, match>>
          /\ \A u \in Sessions \ {s} : pc'[u] = pc[u]
      BY <2>4 DEF PassConstraints, Goto, IInv, TypeOK
    <3>2. match[s] = NoEntry
      BY <3>1 DEF MessagesOK, OfferFits, AfterMatch
    <3>3. NoticeSent(s)'
      BY <3>1 DEF MessagesOK, NoticeSent
    <3>4. OfferFits(s)'
      BY <3>1, <3>2 DEF OfferFits
    <3> QED
      BY <1>2, <3>1, <3>3, <3>4
  <2>5. CASE Notify(s) \/ FindMatch(s) \/ Offer(s)
    <3>1. \A u \in Sessions \ {s} : /\ pc'[u] = pc[u] /\ req'[u] = req[u]
                                   /\ new'[u] = new[u] /\ match'[u] = match[u]
      BY <2>5 DEF Notify, FindMatch, Offer, Goto, IInv, TypeOK
    <3> QED
      BY <1>2, <2>5, <3>1, NotifyMessages, FindMatchMessages, OfferMessages
  <2>6. CASE PromoteEntry(s)
    <3>1. /\ pc[s] = "promote" /\ pc'[s] = "offer"
          /\ UNCHANGED <<req, new, match>>
          /\ \A u \in Sessions \ {s} : pc'[u] = pc[u]
      BY <2>6 DEF PromoteEntry, StepAfterPromotion, Goto, IInv, TypeOK
    <3>2. NoticeSent(s)' /\ OfferFits(s)'
      BY <3>1, MessagesFrame DEF MessagesOK
    <3> QED
      BY <1>2, <3>1, <3>2
  <2> QED
    BY <1>5, <2>1, <2>2, <2>3, <2>4, <2>5, <2>6 DEF Advance
<1>6. ASSUME NEW s \in Sessions, Crash(s)
      PROVE  MessagesOK'
  BY <1>3, <1>6 DEF Crash
<1>7. ASSUME NEW e \in Entries, Join(e) \/ LeaveWaitlist(e)
      PROVE  MessagesOK'
  BY <1>1, <1>7 DEF Join, LeaveWaitlist, requested
<1>8. CASE PatchService \/ UNCHANGED vars
  BY <1>1, <1>8 DEF PatchService, vars, requested
<1> QED
  BY <1>4, <1>5, <1>6, <1>7, <1>8 DEF Next

(* A commit is the only step that stores a promotion, after its offer. *)
LEMMA PromotionsStep ==
  ASSUME IInv, MessagesOK, PromotionsOffered, [Next]_vars
  PROVE  PromotionsOffered'
<1> SUFFICES ASSUME NEW e \in Entries, waitlist'[e] # NoEntry, waitlist'[e].status = Promoted
             PROVE  OfferOut(e)'
  BY DEF PromotionsOffered
<1>1. CASE waitlist[e] # NoEntry /\ waitlist[e].status = Promoted
  BY <1>1, OfferStays DEF PromotionsOffered
<1>2. CASE waitlist'[e] = waitlist[e]
  BY <1>1, <1>2
<1>3. ASSUME NEW s \in Sessions, Commit(s), waitlist'[e] # waitlist[e]
      PROVE  OfferOut(e)'
  <2>1. match[s] = e /\ pc[s] = "commit"
    BY <1>3 DEF Commit, WithPromotion, IInv, TypeOK
  <2>2. waitlist[e] # NoEntry /\ OfferOut(e)
    BY <2>1, EntriesAssumption DEF IInv, SessionsOK, SessionShape, MessagesOK, OfferFits
  <2> QED
    BY <2>2, OfferStays
<1>4. ASSUME NEW f \in Entries, Join(f) \/ LeaveWaitlist(f), waitlist'[e] # waitlist[e]
      PROVE  FALSE
  <2>1. CASE Join(f)
    BY <1>4, <2>1 DEF Join, JoinWaitlist, Waiting, Promoted, IInv, TypeOK
  <2>2. CASE LeaveWaitlist(f)
    <3>1. f = e /\ waitlist[e] \in WaitlistRow
          /\ waitlist'[e] = [waitlist[e] EXCEPT !.status = Cancelled]
      BY <1>4, <2>2 DEF LeaveWaitlist, CancelWaitlistEntry, IInv, TypeOK
    <3>2. waitlist'[e].status = Cancelled
      BY <3>1 DEF WaitlistRow
    <3> QED
      BY <3>2 DEF Promoted, Cancelled
  <2> QED
    BY <1>4, <2>1, <2>2
<1>5. \/ waitlist' = waitlist
      \/ \E s \in Sessions : Commit(s)
      \/ \E f \in Entries : Join(f) \/ LeaveWaitlist(f)
  <2>1. ASSUME NEW s \in Sessions, Arrive(s)
        PROVE  waitlist' = waitlist
    BY <2>1 DEF Arrive, StartCreate, StartTransition, StartReschedule, Admit, stored
  <2>2. ASSUME NEW s \in Sessions, Advance(s), ~Commit(s)
        PROVE  waitlist' = waitlist
    <3>1. CASE RefuseTaken(s) \/ RefuseByConstraints(s) \/ ProviderFails(s) \/ DeadlockVictim(s)
      BY <3>1 DEF RefuseTaken, RefuseByConstraints, ProviderFails, DeadlockVictim, Rollback, stored
    <3>2. CASE CheckEmployee(s) \/ CheckRoom(s) \/ PassConstraints(s) \/ PromoteEntry(s)
      BY <3>2 DEF CheckEmployee, CheckRoom, PassConstraints, PromoteEntry, stored
    <3>3. CASE LoadService(s) \/ WriteRow(s) \/ SkipWrite(s)
      BY <3>3 DEF LoadService, WriteRow, SkipWrite, stored
    <3>4. CASE Notify(s) \/ FindMatch(s) \/ Offer(s)
      BY <3>4 DEF Notify, FindMatch, Offer, stored
    <3> QED
      BY <2>2, <3>1, <3>2, <3>3, <3>4 DEF Advance
  <2>3. ASSUME NEW s \in Sessions, Crash(s)
        PROVE  waitlist' = waitlist
    BY <2>3 DEF Crash, Rollback, stored
  <2>4. CASE PatchService \/ UNCHANGED vars
    BY <2>4 DEF PatchService, vars, stored
  <2> QED
    BY <2>1, <2>2, <2>3, <2>4 DEF Next
<1> QED
  BY <1>2, <1>3, <1>4, <1>5

(* The invariant of the messages, next to that of the calendar. *)
THEOREM MessagesInvariant == Spec => [](IInv /\ MessagesOK /\ PromotionsOffered)
<1>1. Init => MessagesOK /\ PromotionsOffered
  BY DEF Init, MessagesOK, NoticeSent, OfferFits, PromotionsOffered, WaitlistInit
<1>2. IInv /\ MessagesOK /\ PromotionsOffered /\ [Next]_vars => MessagesOK' /\ PromotionsOffered'
  BY MessagesStep, PromotionsStep
<1> QED
  BY <1>1, <1>2, Invariant, PTL DEF Spec

(* Nobody is moved up the waitlist without having been offered a slot the   *)
(* wish covers.                                                             *)
THEOREM PromotionsAreOffered == Spec => []PromotionsOffered
  BY MessagesInvariant, PTL

(* A commit that confirms, cancels or moves an appointment follows the      *)
(* message that says so, with the time the appointment then has.            *)
THEOREM ChangesAreAnnounced == Spec => ChangesAnnounced
<1> DEFINE Announced(was, is, a) ==
             /\ is.status = Confirmed /\ ~(was # NoRow /\ was.status = Confirmed) =>
                  Told("confirmation", a, is)
             /\ is.status = Cancelled /\ was.status # Cancelled => Told("cancellation", a, is)
             /\ was # NoRow /\ <<is.start, is.end>> # <<was.start, was.end>> =>
                  Told("reschedule", a, is)
           A == \A a \in Appts : appts'[a] # appts[a] => Announced(appts[a], appts'[a], a)
<1>1. ASSUME IInv, MessagesOK, [Next]_vars
      PROVE  A
  <2>1. CASE ~\E s \in Sessions : Commit(s)
    BY <1>1, <2>1, OnlyCommits
  <2>2. ASSUME NEW s \in Sessions, Commit(s), NEW a \in Appts, appts'[a] # appts[a]
        PROVE  Announced(appts[a], appts'[a], a)
    <3>1. /\ a = req[s].appt /\ new[s] # NoRow /\ appts'[a] = new[s]
          /\ pc[s] = "commit" /\ pc[s] # "idle"
      BY <1>1, <2>2, CommitStores DEF IInv, TypeOK, Commit
    <3>2. req[s] \in Request
      BY <1>1, <3>1, RequestUnderWay DEF IInv
    <3>3. StepAfterWrite(req[s].op) = "notify" => Told(NoticeType(req[s].op), a, new[s])
      BY <1>1, <3>1 DEF MessagesOK, NoticeSent
    <3>4. CASE req[s].op \in Creations
      <4>1. appts[a] = NoRow /\ new[s].status = InitialStatus(req[s].op)
        BY <1>1, <3>1, <3>4 DEF IInv, SessionsOK, SessionShape, MessagesOK, NoticeSent
      <4> QED
        BY <3>1, <3>3, <3>4, <4>1
        DEF Creations, InitialStatus, StepAfterWrite, NoticeType, Pending, Confirmed, Cancelled
    <3>5. CASE req[s].op \in Transitions
      <4>1. /\ appts[a] # NoRow /\ new[s].status = Target(req[s].op)
            /\ new[s].start = appts[a].start /\ new[s].end = appts[a].end
        BY <1>1, <3>1, <3>5
        DEF IInv, SessionsOK, SessionShape, WriteKeeps, MessagesOK, NoticeSent, Transitions, Creations
      <4> QED
        BY <3>1, <3>3, <3>5, <4>1
        DEF Transitions, Target, StepAfterWrite, NoticeType, Confirmed, Completed, Cancelled
    <3>6. CASE req[s].op = "reschedule"
      <4>1. appts[a] # NoRow /\ new[s].status = appts[a].status
        BY <1>1, <3>1, <3>6 DEF IInv, SessionsOK, SessionShape, WriteKeeps, Transitions, Creations
      <4> QED
        BY <3>1, <3>3, <3>6, <4>1 DEF StepAfterWrite, NoticeType
    <3> QED
      BY <3>2, <3>4, <3>5, <3>6 DEF Request, Operations
  <2> QED
    BY <2>1, <2>2
<1>2. IInv /\ MessagesOK /\ [Next]_vars => [A]_vars
  BY <1>1
<1> QED
  BY <1>2, MessagesInvariant, PTL DEF Spec, ChangesAnnounced
=============================================================================
